---- MODULE Spec2Model ----
(***************************************************************************)
(* GPU submission tracker of the Vulkan layer: the timestamp slot pool     *)
(* (TimerQueryPool) and the submission tracker (SubmissionTracker) that    *)
(* rents slots from it, as state machines.                                 *)
(*                                                                         *)
(* One action models one hook.  The hooks are called by one application    *)
(* thread; the capture flag and the event sink change between hooks.       *)
(* A failed CHECK, an uncaught exception or a crash ends the process:      *)
(* status = "fatal".  Undefined behaviour either crashes the process or    *)
(* lets it run on in a state the code no longer defines:                   *)
(* status = "undefined".  No hook runs after either.                       *)
(***************************************************************************)
EXTENDS Integers, Sequences, FiniteSets, TLC

\* ---------------------------------------------------------------- bounds
\* Capacity of the slot pool (num_timer_query_slots_, a constructor argument).
NumTimerQuerySlots == 3
\* Marker entries recorded into one command buffer.
MaxMarkers == 1
\* Submissions that reach the in-flight lists (each reads the clock twice).
MaxSubmissions == 2
\* Length of the slot list handed to a release call of the pool.
MaxReleaseLen == 3
\* the largest marker depth limit the layer is configured with
MaxDepth == 2

\* ------------------------------------------------------------- constants
\* The tick count the driver reports for the first slot (test double).
kTimestamp1 == 11
\* limits.timestampPeriod of the device (test fixture).
timestampPeriod == 1

\* --------------------------------------------------------------- handles
CommandBuffers == {"cb1", "cb2"}
CommandPools == {"pool1", "pool2"}
\* max_local_marker_depth_per_command_buffer_ the tracker is constructed with
MaxDepths == {0, 1}
Queues == {"queue1"}
Texts == {"A", "B"}
device == "device"
tid == "thread1"
Threads == {"thread1", "thread2"}

kReadyForQueryIssue == "kReadyForQueryIssue"
kQueryPendingOnGpu == "kQueryPendingOnGpu"
kDebugMarkerBegin == "kDebugMarkerBegin"
kDebugMarkerEnd == "kDebugMarkerEnd"
TOP_OF_PIPE == "VK_PIPELINE_STAGE_TOP_OF_PIPE_BIT"
BOTTOM_OF_PIPE == "VK_PIPELINE_STAGE_BOTTOM_OF_PIPE_BIT"
VK_SUCCESS == "VK_SUCCESS"
VK_NOT_READY == "VK_NOT_READY"

VARIABLES
  \* TimerQueryPool (of the one device)
  query_slots,               \* device_to_query_slots_[device]: slot -> SlotState
  free_slots,                \* device_to_free_slots_[device]: the free-list
  \* SubmissionTracker
  pool_to_command_buffers,   \* command pool -> set of command buffers
  command_buffer_to_device,  \* command buffer -> device
  command_buffer_to_state,   \* command buffer -> CommandBufferState
  queue_to_submissions,      \* queue -> in-flight QueueSubmissions
  queue_to_markers,          \* queue -> marker stack (bottom first)
  max_depth,                 \* max_local_marker_depth_per_command_buffer_
  \* environment
  producer,                  \* *vulkan_layer_producer_: "absent", "idle", "capturing"
  clock,                     \* MonotonicTimestampNs
  submit,                    \* the vkQueueSubmit in progress: its queue and submit-infos
  pre_submit_timestamp,      \* the optional PreSubmission returned
  cb_phase,                  \* the application's view of each command buffer
  status,                    \* "running", "fatal", "undefined"
  \* what the hooks did to their collaborators
  last_call,                 \* the hook that ran last
  events,                    \* the capture events it gave to EnqueueCaptureEvent
  driver_calls,              \* the driver calls it made
  \* threads and the GPU
  mutex_,                    \* TimerQueryPool::mutex_: the thread that holds it, if any
  pool_calls,                \* thread -> its call into the TimerQueryPool and where it stands
  completed_submissions,     \* thread -> what its CompleteSubmits pulled and has not emitted
  gpu                        \* the timestamp-writes the driver accepted, not yet executed

pool_vars == <<query_slots, free_slots>>
tracker_vars == <<pool_to_command_buffers, command_buffer_to_device, command_buffer_to_state,
                  queue_to_submissions, queue_to_markers, max_depth>>
env_vars == <<producer, clock, submit, pre_submit_timestamp, cb_phase>>
thread_vars == <<mutex_, pool_calls, completed_submissions, gpu>>
vars == <<query_slots, free_slots, pool_to_command_buffers, command_buffer_to_device,
          command_buffer_to_state, queue_to_submissions, queue_to_markers, max_depth,
          producer, clock, submit, pre_submit_timestamp, cb_phase, status, last_call, events, driver_calls,
          mutex_, pool_calls, completed_submissions, gpu>>

\* ------------------------------------------------------------- utilities
\* std::optional<T>: the empty set, or a singleton.
nullopt == {}
make_optional(x) == {x}
has_value(o) == o # {}
value(o) == CHOOSE x \in o : TRUE

Last(s) == s[Len(s)]
Front(s) == SubSeq(s, 1, Len(s) - 1)
Range(s) == {s[i] : i \in 1 .. Len(s)}

RECURSIVE Concat(_)
Concat(ss) == IF ss = <<>> THEN <<>> ELSE Head(ss) \o Concat(Tail(ss))

\* map.erase(key) and map[key] = v of a hash map
Erase(map, key) == [k \in (DOMAIN map) \ {key} |-> map[k]]
Put(map, key, v) == [k \in (DOMAIN map) \cup {key} |-> IF k = key THEN v ELSE map[k]]

\* The orders in which a hash set can be iterated.
Orders(S) == {s \in [1 .. Cardinality(S) -> S] : Range(s) = S}

\* ======================================================= TimerQueryPool
\* InitializeTimerQueryPool of a pool constructed with num_timer_query_slots
\* slots: every slot ready, free-list 0, 1, ..., N-1.
InitialQuerySlots(num_timer_query_slots) ==
  [s \in 0 .. (num_timer_query_slots - 1) |-> kReadyForQueryIssue]
\* The free-list starts in descending order.
DescendingFreeSlots(num_timer_query_slots) ==
  [i \in 1 .. num_timer_query_slots |-> num_timer_query_slots - i]

InitialFreeSlots(num_timer_query_slots) ==
  [i \in 1 .. num_timer_query_slots |-> i - 1]

\* num_timer_query_slots_: the length the slot-state vector is created with.
num_timer_query_slots_(slot_states) == Cardinality(DOMAIN slot_states)

\* Failure is reported while one slot is still free.
OneSlotLeft(free) == Len(free) <= 1

\* NextReadyQuerySlot: free_slots.empty()
PoolExhausted(free) == free = <<>>

\* NextReadyQuerySlot: found = the return value; check = its CHECK held.
NextReadyQuerySlot(slot_states, free) ==
  IF PoolExhausted(free)
  THEN [found |-> FALSE, check |-> TRUE, allocated_index |-> 0,
        query_slots |-> slot_states, free_slots |-> free]
  ELSE LET allocated_index == Last(free) IN
       [found |-> TRUE,
        check |-> slot_states[allocated_index] = kReadyForQueryIssue,
        allocated_index |-> allocated_index,
        query_slots |-> [slot_states EXCEPT ![allocated_index] = kQueryPendingOnGpu],
        free_slots |-> Front(free)]

\* Variant: the state of the slot is not checked before it is released.
SlotIsInRange(slot_states, slot_index) ==
  slot_index < num_timer_query_slots_(slot_states)

\* The CHECKs of one iteration of ResetQuerySlotsInternal.
SlotIsPending(slot_states, slot_index) ==
  /\ slot_index < num_timer_query_slots_(slot_states)
  /\ slot_states[slot_index] = kQueryPendingOnGpu

RECURSIVE ResetQuerySlotsLoop(_, _, _)
ResetQuerySlotsLoop(acc, slot_indices, rollback_only) ==
  IF slot_indices = <<>> \/ ~acc.check THEN acc
  ELSE LET slot_index == Head(slot_indices) IN
       IF ~SlotIsPending(acc.query_slots, slot_index)
       THEN [acc EXCEPT !.check = FALSE]
       ELSE ResetQuerySlotsLoop(
              [check |-> TRUE,
               query_slots |-> [acc.query_slots EXCEPT ![slot_index] = kReadyForQueryIssue],
               free_slots |-> Append(acc.free_slots, slot_index),
               resets |-> IF rollback_only THEN acc.resets
                          ELSE Append(acc.resets, slot_index)],
              Tail(slot_indices), rollback_only)

\* ResetQuerySlotsInternal: check = every CHECK held; resets = the slots given
\* to the driver's ResetQueryPoolEXT, in call order.
ResetQuerySlotsInternal(slot_states, free, slot_indices, rollback_only) ==
  ResetQuerySlotsLoop([check |-> TRUE, query_slots |-> slot_states, free_slots |-> free,
                       resets |-> <<>>], slot_indices, rollback_only)

\* A release that leaves the hardware reset out.
ResetWithoutHardwareReset(slot_states, free, slot_indices) ==
  ResetQuerySlotsInternal(slot_states, free, slot_indices, TRUE)

ResetQuerySlots(slot_states, free, slot_indices) ==
  ResetQuerySlotsInternal(slot_states, free, slot_indices, FALSE)

\* A rollback that resets the slots in the driver as well.
RollbackWithHardwareReset(slot_states, free, slot_indices) ==
  ResetQuerySlotsInternal(slot_states, free, slot_indices, FALSE)

RollbackPendingQuerySlots(slot_states, free, slot_indices) ==
  ResetQuerySlotsInternal(slot_states, free, slot_indices, TRUE)

\* Driver calls, as the hooks' collaborators see them.
WriteCall(stage, slot) == [call |-> "CmdWriteTimestamp", slot |-> slot, arg |-> stage]
ResetCall(slot) == [call |-> "ResetQueryPoolEXT", slot |-> slot, arg |-> ""]
ResultCall(slot, result) == [call |-> "GetQueryPoolResults", slot |-> slot, arg |-> result]
ResetCalls(slots) == [i \in 1 .. Len(slots) |-> ResetCall(slots[i])]

\* ==================================================== SubmissionTracker
\* CommandBufferState{} as MarkCommandBufferBegin creates it
EmptyCommandBufferState ==
  [command_buffer_begin_slot_index |-> nullopt,
   command_buffer_end_slot_index |-> nullopt,
   markers |-> <<>>,
   local_marker_stack_size |-> 0]

\* The hooks take a capture to be running whatever the sink says.
CaptureAlwaysRunning == TRUE

\* IsCapturing(): the sink is there and reports a running capture.
IsCapturing == producer = "capturing"

\* MonotonicTimestampNs: a reading of the clock; every reading advances it.
MonotonicTimestampNs == clock

\* The mock driver's GetQueryPoolResults: the ticks held by a slot.
GetQueryPoolResults(slot_index) == kTimestamp1 + slot_index

\* QueryGpuTimestampNs: u64(double(ticks) * period).  The ticks of the model are
\* far below 2^53 and the period is integral, so the product is exact and the
\* truncation to 64 bits leaves it as it is.
QueryGpuTimestampNs(slot_index) ==
  GetQueryPoolResults(slot_index) * timestampPeriod

\* The sink's InternStringIfNecessaryAndGetKey
InternStringIfNecessaryAndGetKey(text) == <<"key", text>>

\* RecordTimestamp: rent a slot and record a timestamp-write into it.
\* check = the CHECKs of RecordTimestamp and of NextReadyQuerySlot held.
RecordTimestamp(command_buffer, pipeline_stage_flags) ==
  LET n == NextReadyQuerySlot(query_slots, free_slots) IN
  [check |-> command_buffer \in DOMAIN command_buffer_to_device /\ n.found /\ n.check,
   slot_index |-> n.allocated_index,
   query_slots |-> n.query_slots,
   free_slots |-> n.free_slots,
   calls |-> <<WriteCall(pipeline_stage_flags, n.allocated_index)>>]

\* The process ends (s = "fatal") or leaves defined behaviour (s = "undefined").
Crash(s) ==
  /\ status' = s
  /\ events' = <<>>
  /\ driver_calls' = <<>>
  /\ UNCHANGED <<pool_vars, tracker_vars, env_vars>>

\* Undefined behaviour: the build crashes, or runs on undefined.
Undefined == \E s \in {"fatal", "undefined"} : Crash(s)

\* A hook called by the application thread, outside a queue submit.
AppCall == status = "running" /\ submit = nullopt

Tracked(cb) == cb \in DOMAIN command_buffer_to_device

\* ------------------------------------------------------ track / untrack
TrackCommandBuffers(pool, command_buffers) ==
  /\ AppCall
  /\ UNCHANGED thread_vars
  /\ last_call' = [name |-> "TrackCommandBuffers", command_buffer |-> "", device |-> device,
                    pool |-> pool, command_buffers |-> command_buffers,
                    found |-> <<pool_to_command_buffers, command_buffer_to_device>>]
  /\ pool_to_command_buffers' =
       Put(pool_to_command_buffers, pool,
           (IF pool \in DOMAIN pool_to_command_buffers
            THEN pool_to_command_buffers[pool] ELSE {}) \cup command_buffers)
  /\ command_buffer_to_device' =
       [cb \in (DOMAIN command_buffer_to_device) \cup command_buffers |->
          IF cb \in command_buffers THEN device ELSE command_buffer_to_device[cb]]
  /\ cb_phase' = [cb \in CommandBuffers |->
                    IF cb \in command_buffers THEN "initial" ELSE cb_phase[cb]]
  /\ driver_calls' = <<>>
  /\ events' = <<>>
  /\ UNCHANGED <<pool_vars, command_buffer_to_state, queue_to_submissions, queue_to_markers,
                 max_depth, producer, clock, submit, pre_submit_timestamp, status>>

\* The CHECKs of UntrackCommandBuffers
UntrackChecks(dev, pool, command_buffers) ==
  /\ pool \in DOMAIN pool_to_command_buffers
  /\ \A cb \in command_buffers :
       /\ cb \in DOMAIN command_buffer_to_device
       /\ command_buffer_to_device[cb] = dev

\* The entry of a pool is kept when its last command buffer goes.
PoolEntryKept(associated_command_buffers) == FALSE

\* UntrackCommandBuffers: the pool's set is empty after the loop.
PoolEmptied(associated_command_buffers) == associated_command_buffers = {}

UntrackCommandBuffers(dev, pool, command_buffers) ==
  /\ AppCall
  /\ UNCHANGED thread_vars
  /\ last_call' = [name |-> "UntrackCommandBuffers", command_buffer |-> "", device |-> dev,
                    pool |-> pool, command_buffers |-> command_buffers]
  /\ IF ~UntrackChecks(dev, pool, command_buffers) THEN Crash("fatal")
     ELSE LET associated == pool_to_command_buffers[pool] \ command_buffers IN
          /\ pool_to_command_buffers' =
               IF PoolEmptied(associated) THEN Erase(pool_to_command_buffers, pool)
               ELSE [pool_to_command_buffers EXCEPT ![pool] = associated]
          /\ command_buffer_to_device' =
               [cb \in (DOMAIN command_buffer_to_device) \ command_buffers |->
                  command_buffer_to_device[cb]]
          /\ cb_phase' = [cb \in CommandBuffers |->
                            IF cb \in command_buffers THEN "initial" ELSE cb_phase[cb]]
          /\ driver_calls' = <<>>
          /\ events' = <<>>
          /\ UNCHANGED <<pool_vars, command_buffer_to_state, queue_to_submissions,
                         queue_to_markers, max_depth, producer, clock, submit,
                         pre_submit_timestamp, status>>

\* --------------------------------------------------- recording a buffer
MarkCommandBufferBegin(cb) ==
  /\ AppCall
  /\ UNCHANGED thread_vars
  /\ last_call' = [name |-> "MarkCommandBufferBegin", command_buffer |-> cb]
  /\ Tracked(cb)
  /\ cb_phase[cb] \in {"initial", "executable"}
  /\ IF cb \in DOMAIN command_buffer_to_state THEN Crash("fatal")
     ELSE IF ~IsCapturing
     THEN /\ command_buffer_to_state' = Put(command_buffer_to_state, cb, EmptyCommandBufferState)
          /\ cb_phase' = [cb_phase EXCEPT ![cb] = "recording"]
          /\ driver_calls' = <<>>
          /\ events' = <<>>
          /\ UNCHANGED <<pool_vars, pool_to_command_buffers, command_buffer_to_device,
                         queue_to_submissions, queue_to_markers, max_depth, producer, clock,
                         submit, pre_submit_timestamp, status>>
     ELSE LET t == RecordTimestamp(cb, TOP_OF_PIPE) IN
          IF ~t.check THEN Crash("fatal")
          ELSE /\ command_buffer_to_state' =
                    Put(command_buffer_to_state, cb,
                        [EmptyCommandBufferState EXCEPT
                           !.command_buffer_begin_slot_index = make_optional(t.slot_index)])
               /\ query_slots' = t.query_slots
               /\ free_slots' = t.free_slots
               /\ cb_phase' = [cb_phase EXCEPT ![cb] = "recording"]
               /\ driver_calls' = t.calls
               /\ events' = <<>>
               /\ UNCHANGED <<pool_to_command_buffers, command_buffer_to_device,
                              queue_to_submissions, queue_to_markers, max_depth, producer,
                              clock, submit, pre_submit_timestamp, status>>

MarkCommandBufferEnd(cb) ==
  /\ AppCall
  /\ UNCHANGED thread_vars
  /\ last_call' = [name |-> "MarkCommandBufferEnd", command_buffer |-> cb]
  /\ Tracked(cb)
  /\ cb_phase[cb] = "recording"
  /\ IF ~IsCapturing
     THEN /\ cb_phase' = [cb_phase EXCEPT ![cb] = "executable"]
          /\ driver_calls' = <<>>
          /\ events' = <<>>
          /\ UNCHANGED <<pool_vars, tracker_vars, producer, clock, submit, pre_submit_timestamp,
                         status>>
     ELSE LET t == RecordTimestamp(cb, BOTTOM_OF_PIPE) IN
          IF ~t.check \/ cb \notin DOMAIN command_buffer_to_state THEN Crash("fatal")
          ELSE /\ command_buffer_to_state' =
                    [command_buffer_to_state EXCEPT
                       ![cb].command_buffer_end_slot_index = make_optional(t.slot_index)]
               /\ query_slots' = t.query_slots
               /\ free_slots' = t.free_slots
               /\ cb_phase' = [cb_phase EXCEPT ![cb] = "executable"]
               /\ driver_calls' = t.calls
               /\ events' = <<>>
               /\ UNCHANGED <<pool_to_command_buffers, command_buffer_to_device,
                              queue_to_submissions, queue_to_markers, max_depth, producer,
                              clock, submit, pre_submit_timestamp, status>>

\* The limit is taken for the first depth without a slot.
TooManyMarkersAtLimit(local_marker_stack_size) ==
  max_depth > 0 /\ local_marker_stack_size >= max_depth

\* The depth is compared with the limit even when the limit is 0.
DepthFilterAlways == TRUE

\* max_local_marker_depth_per_command_buffer_ > 0: a limit of 0 is no limit.
DepthFilterEnabled == max_depth > 0

\* too_many_markers of MarkDebugMarkerBegin / MarkDebugMarkerEnd
TooManyMarkers(local_marker_stack_size) ==
  DepthFilterEnabled /\ local_marker_stack_size > max_depth

\* The marker hooks: the entry is appended first; the slot, if one is rented,
\* is attached to markers.back().
MarkDebugMarker(cb, marker, new_stack_size, too_many_markers, stage) ==
  IF cb \notin DOMAIN command_buffer_to_state THEN Crash("fatal")
  ELSE LET state == command_buffer_to_state[cb] IN
       IF ~IsCapturing \/ too_many_markers
       THEN /\ command_buffer_to_state' =
                 [command_buffer_to_state EXCEPT
                    ![cb] = [state EXCEPT !.markers = Append(@, marker),
                                          !.local_marker_stack_size = new_stack_size]]
            /\ driver_calls' = <<>>
            /\ events' = <<>>
            /\ UNCHANGED <<pool_vars, pool_to_command_buffers, command_buffer_to_device,
                           queue_to_submissions, queue_to_markers, max_depth, env_vars,
                           status>>
       ELSE LET t == RecordTimestamp(cb, stage) IN
            IF ~t.check THEN Crash("fatal")
            ELSE /\ command_buffer_to_state' =
                      [command_buffer_to_state EXCEPT
                         ![cb] = [state EXCEPT
                                    !.markers = Append(@, [marker EXCEPT !.slot_index =
                                                             make_optional(t.slot_index)]),
                                    !.local_marker_stack_size = new_stack_size]]
                 /\ query_slots' = t.query_slots
                 /\ free_slots' = t.free_slots
                 /\ driver_calls' = t.calls
                 /\ events' = <<>>
                 /\ UNCHANGED <<pool_to_command_buffers, command_buffer_to_device,
                                queue_to_submissions, queue_to_markers, max_depth, env_vars,
                                status>>

\* The marker entries the application puts into one command buffer: with a
\* depth limit, enough to nest one marker deeper than the limit; without one,
\* MaxMarkers, or as many as the pool has slots for beside the two of the
\* command buffer, if that is more.
MarkerLimit ==
  IF max_depth = 0
  THEN IF Cardinality(DOMAIN query_slots) - 2 > MaxMarkers
       THEN Cardinality(DOMAIN query_slots) - 2 ELSE MaxMarkers
  ELSE 2 * max_depth + 2

\* The application records into a command buffer it has begun and not ended.
Recording(cb) ==
  /\ Tracked(cb)
  /\ cb_phase[cb] = "recording"
  /\ cb \in DOMAIN command_buffer_to_state =>
       Len(command_buffer_to_state[cb].markers) < MarkerLimit

LocalMarkerStackSize(cb) ==
  IF cb \in DOMAIN command_buffer_to_state
  THEN command_buffer_to_state[cb].local_marker_stack_size ELSE 0

MarkDebugMarkerBegin(cb, text) ==
  /\ AppCall
  /\ UNCHANGED thread_vars
  /\ last_call' = [name |-> "MarkDebugMarkerBegin", command_buffer |-> cb]
  /\ Recording(cb)
  /\ LET size == LocalMarkerStackSize(cb) + 1 IN
     MarkDebugMarker(cb,
       [type |-> kDebugMarkerBegin, slot_index |-> nullopt, text |-> make_optional(text)],
       size, TooManyMarkers(size), TOP_OF_PIPE)

\* An end that would decrement whatever the depth.
Decrement(size) == size - 1

\* The end of a marker leaves a depth of zero as it is.
DecrementUnlessZero(size) == IF size # 0 THEN size - 1 ELSE size

MarkDebugMarkerEnd(cb) ==
  /\ AppCall
  /\ UNCHANGED thread_vars
  /\ last_call' = [name |-> "MarkDebugMarkerEnd", command_buffer |-> cb]
  /\ Recording(cb)
  /\ LET size == LocalMarkerStackSize(cb) IN
     MarkDebugMarker(cb,
       [type |-> kDebugMarkerEnd, slot_index |-> nullopt, text |-> nullopt],
       DecrementUnlessZero(size), TooManyMarkers(size), BOTTOM_OF_PIPE)

\* ------------------------------------------------------ reset-buffer/pool
\* The slots a record references, in the order the code gathers them.
RECURSIVE MarkerSlots(_)
MarkerSlots(markers) ==
  IF markers = <<>> THEN <<>>
  ELSE (IF has_value(Head(markers).slot_index)
        THEN <<value(Head(markers).slot_index)>> ELSE <<>>) \o MarkerSlots(Tail(markers))

\* The marker slots of a record are forgotten.
BeginAndEndSlots(state) ==
  (IF has_value(state.command_buffer_begin_slot_index)
   THEN <<value(state.command_buffer_begin_slot_index)>> ELSE <<>>)
  \o (IF has_value(state.command_buffer_end_slot_index)
      THEN <<value(state.command_buffer_end_slot_index)>> ELSE <<>>)

StateSlots(state) ==
  (IF has_value(state.command_buffer_begin_slot_index)
   THEN <<value(state.command_buffer_begin_slot_index)>> ELSE <<>>)
  \o (IF has_value(state.command_buffer_end_slot_index)
      THEN <<value(state.command_buffer_end_slot_index)>> ELSE <<>>)
  \o MarkerSlots(state.markers)

\* ResetCommandBuffer on each of command_buffers in turn.
\* acc: [check, states, query_slots, free_slots, resets]
RECURSIVE ResetCommandBuffers(_, _)
ResetCommandBuffers(acc, command_buffers) ==
  IF command_buffers = <<>> \/ ~acc.check THEN acc
  ELSE LET cb == Head(command_buffers) IN
       IF cb \notin DOMAIN acc.states THEN ResetCommandBuffers(acc, Tail(command_buffers))
       ELSE IF cb \notin DOMAIN command_buffer_to_device THEN [acc EXCEPT !.check = FALSE]
       ELSE LET r == RollbackPendingQuerySlots(acc.query_slots, acc.free_slots,
                                               StateSlots(acc.states[cb])) IN
            ResetCommandBuffers([check |-> r.check,
                                 states |-> Erase(acc.states, cb),
                                 query_slots |-> r.query_slots,
                                 free_slots |-> r.free_slots,
                                 resets |-> acc.resets \o r.resets],
                                Tail(command_buffers))

ResetAll(command_buffers) ==
  LET r == ResetCommandBuffers([check |-> TRUE, states |-> command_buffer_to_state,
                                query_slots |-> query_slots, free_slots |-> free_slots,
                                resets |-> <<>>],
                               command_buffers) IN
  IF ~r.check THEN Crash("fatal")
  ELSE /\ command_buffer_to_state' = r.states
       /\ query_slots' = r.query_slots
       /\ free_slots' = r.free_slots
       /\ cb_phase' = [cb \in CommandBuffers |->
                         IF cb \in Range(command_buffers) THEN "initial" ELSE cb_phase[cb]]
       /\ driver_calls' = ResetCalls(r.resets)
       /\ events' = <<>>
       /\ UNCHANGED <<pool_to_command_buffers, command_buffer_to_device, queue_to_submissions,
                      queue_to_markers, max_depth, producer, clock, submit, pre_submit_timestamp,
                      status>>

ResetCommandBuffer(cb) ==
  /\ AppCall
  /\ UNCHANGED thread_vars
  /\ last_call' = [name |-> "ResetCommandBuffer", command_buffer |-> cb]
  /\ Tracked(cb)
  /\ ResetAll(<<cb>>)

\* The command buffers of every pool are reset.
CommandBuffersOfAllPools(command_pool) == DOMAIN command_buffer_to_device

\* ResetCommandPool: its copy of the pool's command buffers, none for a pool
\* that has no entry.
CommandBuffersOfPool(command_pool) ==
  IF command_pool \in DOMAIN pool_to_command_buffers
  THEN pool_to_command_buffers[command_pool] ELSE {}

ResetCommandPool(command_pool) ==
  /\ AppCall
  /\ UNCHANGED thread_vars
  /\ last_call' = [name |-> "ResetCommandPool", command_buffer |-> "", pool |-> command_pool]
  /\ \E order \in Orders(CommandBuffersOfPool(command_pool)) : ResetAll(order)

\* ------------------------------------------------------------ submission
\* What the application may submit: command buffers it has ended.
CommandBufferLists ==
  {<<>>} \cup {<<a>> : a \in CommandBuffers} \cup {<<a, b>> : a, b \in CommandBuffers}
SubmitLists ==
  {<<>>} \cup {<<i>> : i \in CommandBufferLists}
         \cup {<<i, j>> : i, j \in CommandBufferLists}
Submittable(submits) ==
  \A cb \in Range(Concat(submits)) : Tracked(cb) /\ cb_phase[cb] = "executable"

PreSubmission(queue, submits) ==
  /\ AppCall
  /\ UNCHANGED thread_vars
  /\ last_call' = [name |-> "PreSubmission", command_buffer |-> ""]
  /\ Submittable(submits)
  /\ IsCapturing => clock < 2 * MaxSubmissions
  /\ submit' = make_optional([queue |-> queue, submits |-> submits])
  /\ pre_submit_timestamp' =
       IF ~IsCapturing THEN nullopt ELSE make_optional(MonotonicTimestampNs)
  /\ driver_calls' = <<>>
  /\ events' = <<>>
  /\ UNCHANGED <<pool_vars, tracker_vars, producer, clock, cb_phase, status>>

\* DoPostSubmitQueue, not capturing or no pre-submit timestamp: the loop over the
\* submitted command buffers.  acc: [check, states, reset_slots]
RECURSIVE CollectResetSlots(_, _)
CollectResetSlots(acc, command_buffers) ==
  IF command_buffers = <<>> \/ ~acc.check THEN acc
  ELSE LET cb == Head(command_buffers) IN
       IF acc.reset_device = nullopt /\ cb \notin DOMAIN command_buffer_to_device
       THEN [acc EXCEPT !.check = FALSE]
       ELSE LET acc1 == [acc EXCEPT !.reset_device =
                           IF @ = nullopt THEN make_optional(command_buffer_to_device[cb])
                           ELSE @] IN
            IF cb \notin DOMAIN acc.states
            THEN CollectResetSlots(acc1, Tail(command_buffers))
            ELSE CollectResetSlots(
                   [acc1 EXCEPT !.states = Erase(@, cb),
                                !.reset_slots = @ \o StateSlots(acc.states[cb])],
                   Tail(command_buffers))

\* The popped marker also joins when only its begin carried a slot.
EndOrBeginCompletes(marker, marker_state) ==
  has_value(marker.slot_index) \/ has_value(marker_state.begin_info)

\* An end entry's popped marker joins completed_markers.
EndMarkerCompletes(marker, marker_state) == has_value(marker.slot_index)

\* The depth counts the marker itself.
MarkerDepthAfterPush(marker_stack) == Len(marker_stack) + 1

\* The depth a begin entry's marker is given: markers.marker_stack.size()
\* before the push.
MarkerDepth(marker_stack) == Len(marker_stack)

\* DoPostSubmitQueue, capturing: the loop over the markers of one record.
\* acc: [status, marker_stack, completed_markers, num_begin_markers]
RECURSIVE SubmitMarkers(_, _, _)
SubmitMarkers(acc, markers, meta_information) ==
  IF markers = <<>> \/ acc.status # "running" THEN acc
  ELSE LET marker == Head(markers)
           submitted_marker ==
             IF has_value(marker.slot_index)
             THEN make_optional([meta_information |-> meta_information,
                                 slot_index |-> value(marker.slot_index)])
             ELSE nullopt
       IN
       IF marker.type = kDebugMarkerBegin
       THEN SubmitMarkers(
              [acc EXCEPT
                 !.num_begin_markers = IF has_value(marker.slot_index) THEN @ + 1 ELSE @,
                 !.marker_stack = Append(@, [text |-> value(marker.text),
                                             begin_info |-> submitted_marker,
                                             end_info |-> nullopt,
                                             depth |-> MarkerDepth(acc.marker_stack)])],
              Tail(markers), meta_information)
       ELSE IF acc.marker_stack = <<>>
       THEN [acc EXCEPT !.status = "undefined"]     \* top() and pop() of an empty stack
       ELSE LET marker_state == Last(acc.marker_stack) IN
            SubmitMarkers(
              [acc EXCEPT
                 !.marker_stack = Front(@),
                 !.completed_markers =
                    IF EndMarkerCompletes(marker, marker_state)
                    THEN Append(@, [marker_state EXCEPT !.end_info = submitted_marker])
                    ELSE @],
              Tail(markers), meta_information)

\* DoPostSubmitQueue, capturing: one command buffer of the current submit-info.
\* acc: [status, states, marker_stack, submission]
SubmitCommandBuffer(acc, cb) ==
  IF cb \notin DOMAIN acc.states THEN [acc EXCEPT !.status = "fatal"]
  ELSE LET state == acc.states[cb]
           m == SubmitMarkers([status |-> "running",
                               marker_stack |-> acc.marker_stack,
                               completed_markers |-> acc.submission.completed_markers,
                               num_begin_markers |-> acc.submission.num_begin_markers],
                              state.markers, acc.submission.meta_information)
       IN
       IF m.status # "running" THEN [acc EXCEPT !.status = m.status]
       ELSE IF ~has_value(state.command_buffer_end_slot_index)
       THEN [acc EXCEPT !.status = "fatal"]         \* value() of an empty optional throws
       ELSE LET submitted_command_buffer ==
                  [command_buffer_begin_slot_index |-> state.command_buffer_begin_slot_index,
                   command_buffer_end_slot_index |-> value(state.command_buffer_end_slot_index)]
                n == Len(acc.submission.submit_infos)
            IN
            [status |-> "running",
             states |-> Erase(acc.states, cb),
             marker_stack |-> m.marker_stack,
             submission |->
               [acc.submission EXCEPT
                  !.submit_infos[n] = Append(@, submitted_command_buffer),
                  !.completed_markers = m.completed_markers,
                  !.num_begin_markers = m.num_begin_markers]]

RECURSIVE SubmitCommandBuffers(_, _)
SubmitCommandBuffers(acc, command_buffers) ==
  IF command_buffers = <<>> \/ acc.status # "running" THEN acc
  ELSE SubmitCommandBuffers(SubmitCommandBuffer(acc, Head(command_buffers)),
                            Tail(command_buffers))

\* DoPostSubmitQueue, capturing: the loop over the submit-infos.
RECURSIVE SubmitInfos(_, _)
SubmitInfos(acc, submits) ==
  IF submits = <<>> \/ acc.status # "running" THEN acc
  ELSE SubmitInfos(
         SubmitCommandBuffers(
           [acc EXCEPT !.submission.submit_infos = Append(@, <<>>)], Head(submits)),
         Tail(submits))

\* The capture flag is not read again at post-submit.
NoPreSubmitTimestamp == ~has_value(pre_submit_timestamp)

\* The regime of DoPostSubmitQueue: the flag as it is now, and whether
\* PreSubmission gave a timestamp.
\* A post-submit that would drop every record, submitted or not.
ReleaseEveryRecord(command_buffers) ==
  [CollectResetSlots([check |-> TRUE, reset_device |-> nullopt,
                      states |-> command_buffer_to_state,
                      reset_slots |-> <<>>], command_buffers)
     EXCEPT !.states = [cb \in {} |-> command_buffer_to_state[cb]]]

\* The second block of the regime that appends nothing: the walk over the
\* submitted command buffers, from no device and no slot collected.
ReleaseSubmittedRecords(command_buffers) ==
  CollectResetSlots([check |-> TRUE, reset_device |-> nullopt,
                     states |-> command_buffer_to_state,
                     reset_slots |-> <<>>], command_buffers)

NotCapturingRegime == ~IsCapturing \/ ~has_value(pre_submit_timestamp)

DoPostSubmitQueue(queue, submits) ==
  /\ status = "running"
  /\ UNCHANGED thread_vars
  /\ last_call' = [name |-> "DoPostSubmitQueue", command_buffer |-> ""]
  /\ submit = make_optional([queue |-> queue, submits |-> submits])
  /\ IF NotCapturingRegime
     THEN IF DOMAIN command_buffer_to_state = {}
          THEN /\ submit' = nullopt
               /\ pre_submit_timestamp' = nullopt
               /\ driver_calls' = <<>>
               /\ events' = <<>>
               /\ UNCHANGED <<pool_vars, tracker_vars, producer, clock, cb_phase, status>>
          ELSE LET c == ReleaseSubmittedRecords(Concat(submits))
                   r == ResetQuerySlots(query_slots, free_slots, c.reset_slots)
               IN
               IF ~c.check \/ ~r.check THEN Crash("fatal")
               ELSE /\ command_buffer_to_state' = c.states
                    /\ query_slots' = r.query_slots
                    /\ free_slots' = r.free_slots
                    /\ submit' = nullopt
                    /\ pre_submit_timestamp' = nullopt
                    /\ driver_calls' = ResetCalls(r.resets)
                    /\ events' = <<>>
                    /\ UNCHANGED <<pool_to_command_buffers, command_buffer_to_device,
                                   queue_to_submissions, queue_to_markers, max_depth,
                                   producer, clock, cb_phase, status>>
     ELSE LET queue_submission ==
                [meta_information |->
                   [thread_id |-> tid,
                    post_submission_cpu_timestamp |-> MonotonicTimestampNs + 1,
                    pre_submission_cpu_timestamp |-> value(pre_submit_timestamp)],
                 submit_infos |-> <<>>,
                 completed_markers |-> <<>>,
                 num_begin_markers |-> 0]
              s == SubmitInfos([status |-> "running",
                                states |-> command_buffer_to_state,
                                marker_stack |-> queue_to_markers[queue],
                                submission |-> queue_submission], submits)
          IN
          IF s.status = "fatal" THEN Crash("fatal")
          ELSE IF s.status = "undefined" THEN Undefined
          ELSE /\ command_buffer_to_state' = s.states
               /\ queue_to_markers' = [queue_to_markers EXCEPT ![queue] = s.marker_stack]
               /\ queue_to_submissions' =
                    [queue_to_submissions EXCEPT ![queue] = Append(@, s.submission)]
               /\ clock' = clock + 2
               /\ submit' = nullopt
               /\ pre_submit_timestamp' = nullopt
               /\ driver_calls' = <<>>
               /\ events' = <<>>
               /\ UNCHANGED <<pool_vars, pool_to_command_buffers, command_buffer_to_device,
                              max_depth, producer, cb_phase, status>>

\* ----------------------------------------------------------------- drain
\* The submit-info PullCompletedSubmissions looks at for the last command
\* buffer: submit_infos.back() at every step of its reverse iteration.
LastSubmitInfo(submission) == Last(submission.submit_infos)

\* A submission is erased without its timers being read.
EraseWhateverTheProbe(query_worked) == TRUE

\* erase_submission: only a submission whose probe worked is erased.
EraseSubmission(query_worked) == query_worked = VK_SUCCESS

\* What the scan does after a probe that reported not ready: it goes on
\* to the next submission of the queue.
ScanAfterNotReady(queue_submissions) == Tail(queue_submissions)

\* PullCompletedSubmissions, the scan of one queue's in-flight list.  ready = the
\* slots whose result the driver has.  acc: [remaining, completed, probes]
RECURSIVE PullQueue(_, _, _, _)
PullQueue(acc, queue, queue_submissions, ready) ==
  IF queue_submissions = <<>> THEN acc
  ELSE LET submission == Head(queue_submissions) IN
       IF submission.submit_infos = <<>>
       THEN PullQueue(acc, queue, Tail(queue_submissions), ready)
       ELSE LET submit_info == LastSubmitInfo(submission) IN
            IF submit_info = <<>>
            THEN PullQueue(acc, queue, Tail(queue_submissions), ready)
            ELSE LET check_slot_index_end == Last(submit_info).command_buffer_end_slot_index
                     query_worked == IF check_slot_index_end \in ready
                                     THEN VK_SUCCESS ELSE VK_NOT_READY
                     probes == Append(acc.probes,
                                      ResultCall(check_slot_index_end, query_worked))
                     completed == IF query_worked = VK_SUCCESS
                                  THEN Append(acc.completed, [queue |-> queue,
                                                              submission |-> submission])
                                  ELSE acc.completed
                 IN
                 IF EraseSubmission(query_worked)
                 THEN PullQueue([acc EXCEPT !.completed = completed, !.probes = probes],
                                queue, Tail(queue_submissions), ready)
                 ELSE PullQueue([acc EXCEPT
                                   !.remaining = @ \o SubSeq(queue_submissions, 1,
                                       Len(queue_submissions)
                                         - Len(ScanAfterNotReady(queue_submissions))),
                                   !.completed = completed,
                                   !.probes = probes],
                                queue, ScanAfterNotReady(queue_submissions), ready)

\* PullCompletedSubmissions: the queues in the order the hash map yields them.
\* acc: [queue_to_submissions, completed, probes]
RECURSIVE PullQueues(_, _, _)
PullQueues(acc, order, ready) ==
  IF order = <<>> THEN acc
  ELSE LET queue == Head(order)
           q == PullQueue([remaining |-> <<>>, completed |-> acc.completed,
                           probes |-> acc.probes],
                          queue, acc.queue_to_submissions[queue], ready)
       IN PullQueues([queue_to_submissions |->
                        [acc.queue_to_submissions EXCEPT ![queue] = q.remaining],
                      completed |-> q.completed,
                      probes |-> q.probes],
                     Tail(order), ready)

PullCompletedSubmissions(order, ready) ==
  PullQueues([queue_to_submissions |-> queue_to_submissions, completed |-> <<>>,
              probes |-> <<>>], order, ready)

\* The slots CompleteSubmits reads for one submission, in reading order; it
\* pushes each onto query_slots_to_reset as it reads it.
CommandBufferSlots(completed_command_buffer) ==
  (IF has_value(completed_command_buffer.command_buffer_begin_slot_index)
   THEN <<value(completed_command_buffer.command_buffer_begin_slot_index)>> ELSE <<>>)
  \o <<completed_command_buffer.command_buffer_end_slot_index>>

\* A drain that would leave the begin slot of a completed marker alone.
MarkerEndSlotOnly(marker_state) == <<value(marker_state.end_info).slot_index>>

CompletedMarkerSlots(marker_state) ==
  <<value(marker_state.end_info).slot_index>>
  \o (IF has_value(marker_state.begin_info)
      THEN <<value(marker_state.begin_info).slot_index>> ELSE <<>>)

SubmissionSlots(submission) ==
  Concat([i \in 1 .. Len(submission.submit_infos) |->
            Concat([j \in 1 .. Len(submission.submit_infos[i]) |->
                      CommandBufferSlots(submission.submit_infos[i][j])])])
  \o Concat([k \in 1 .. Len(submission.completed_markers) |->
               CompletedMarkerSlots(submission.completed_markers[k])])

\* WriteMetaInfo
WriteMetaInfo(meta_info) ==
  [tid |-> meta_info.thread_id,
   pre_submission_cpu_timestamp |-> meta_info.pre_submission_cpu_timestamp,
   post_submission_cpu_timestamp |-> meta_info.post_submission_cpu_timestamp]

\* The begin timestamp is read from the end slot.
CommandBufferProtoOfEndSlot(completed_command_buffer) ==
  [begin_gpu_timestamp_ns |->
     IF has_value(completed_command_buffer.command_buffer_begin_slot_index)
     THEN make_optional(QueryGpuTimestampNs(
            completed_command_buffer.command_buffer_end_slot_index))
     ELSE nullopt,
   end_gpu_timestamp_ns |->
     QueryGpuTimestampNs(completed_command_buffer.command_buffer_end_slot_index)]

\* The GpuCommandBuffer and GpuDebugMarker messages of a capture event
CommandBufferProto(completed_command_buffer) ==
  [begin_gpu_timestamp_ns |->
     IF has_value(completed_command_buffer.command_buffer_begin_slot_index)
     THEN make_optional(QueryGpuTimestampNs(
            value(completed_command_buffer.command_buffer_begin_slot_index)))
     ELSE nullopt,
   end_gpu_timestamp_ns |->
     QueryGpuTimestampNs(completed_command_buffer.command_buffer_end_slot_index)]

\* The begin of a completed marker is left out of its message.
MarkerProtoWithoutBegin(marker_state) ==
  [text_key |-> InternStringIfNecessaryAndGetKey(marker_state.text),
   depth |-> marker_state.depth,
   end_gpu_timestamp_ns |-> QueryGpuTimestampNs(value(marker_state.end_info).slot_index),
   begin_marker |-> nullopt]

MarkerProto(marker_state) ==
  [text_key |-> InternStringIfNecessaryAndGetKey(marker_state.text),
   depth |-> marker_state.depth,
   end_gpu_timestamp_ns |-> QueryGpuTimestampNs(value(marker_state.end_info).slot_index),
   begin_marker |->
     IF has_value(marker_state.begin_info)
     THEN make_optional(
            [meta_info |-> WriteMetaInfo(value(marker_state.begin_info).meta_information),
             gpu_timestamp_ns |->
               QueryGpuTimestampNs(value(marker_state.begin_info).slot_index)])
     ELSE nullopt]

\* The capture event of one completed submission.  queue is not part of the
\* message: it records which queue the submission was pulled from.
CaptureEvent(queue, completed_submission) ==
  [queue |-> queue,
   meta_info |-> WriteMetaInfo(completed_submission.meta_information),
   submit_infos |->
     [i \in 1 .. Len(completed_submission.submit_infos) |->
        [j \in 1 .. Len(completed_submission.submit_infos[i]) |->
           CommandBufferProto(completed_submission.submit_infos[i][j])]],
   completed_markers |->
     [k \in 1 .. Len(completed_submission.completed_markers) |->
        MarkerProto(completed_submission.completed_markers[k])],
   num_begin_markers |-> completed_submission.num_begin_markers]

\* Events are made only while a capture is running.
CaptureEventsWhileCapturing(completed) ==
  IF IsCapturing
  THEN [i \in 1 .. Len(completed) |->
          CaptureEvent(completed[i].queue, completed[i].submission)]
  ELSE <<>>

CaptureEvents(completed) ==
  [i \in 1 .. Len(completed) |-> CaptureEvent(completed[i].queue, completed[i].submission)]

\* A drain that would hand back the slots of the command buffers only.
CommandBufferSlotsToReset(completed) ==
  Concat([i \in 1 .. Len(completed) |->
            Concat([j \in 1 .. Len(completed[i].submission.submit_infos) |->
                      Concat([k \in 1 .. Len(completed[i].submission.submit_infos[j]) |->
                                CommandBufferSlots(completed[i].submission.submit_infos[j][k])])])])

QuerySlotsToReset(completed) ==
  Concat([i \in 1 .. Len(completed) |-> SubmissionSlots(completed[i].submission)])

ReadCalls(slots) == [i \in 1 .. Len(slots) |-> ResultCall(slots[i], VK_SUCCESS)]

\* The end slots a CompleteSubmits call can probe.
ProbeSlots ==
  UNION {{Last(LastSubmitInfo(queue_to_submissions[q][i])).command_buffer_end_slot_index :
            i \in {n \in 1 .. Len(queue_to_submissions[q]) :
                     /\ queue_to_submissions[q][n].submit_infos # <<>>
                     /\ LastSubmitInfo(queue_to_submissions[q][n]) # <<>>}} :
         q \in Queues}

\* The driver has no result yet for what the submissions left in flight wrote.
\* Of the slots CompleteSubmits reads, those are the begin slots of completed
\* markers begun in such a submission.
UnavailableSlots(completed, remaining) ==
  LET metas == UNION {{remaining[q][i].meta_information : i \in 1 .. Len(remaining[q])} :
                      q \in Queues}
  IN UNION {{value(completed[i].submission.completed_markers[k].begin_info).slot_index :
               k \in {n \in 1 .. Len(completed[i].submission.completed_markers) :
                  LET begin_info == completed[i].submission.completed_markers[n].begin_info
                  IN has_value(begin_info) /\ value(begin_info).meta_information \in metas}} :
            i \in 1 .. Len(completed)}

\* The completed submissions whose event is enqueued before a read fails the
\* CHECK of QueryGpuTimestampNs.
RECURSIVE ReadableSubmissions(_, _)
ReadableSubmissions(completed, unavailable) ==
  IF completed = <<>> THEN <<>>
  ELSE IF Range(SubmissionSlots(Head(completed).submission)) \cap unavailable # {} THEN <<>>
  ELSE <<Head(completed)>> \o ReadableSubmissions(Tail(completed), unavailable)

\* The reads of CompleteSubmits up to and with the first that fails.
RECURSIVE ReadCallsUntilFailure(_, _)
ReadCallsUntilFailure(slots, unavailable) ==
  IF slots = <<>> THEN <<>>
  ELSE IF Head(slots) \in unavailable THEN <<ResultCall(Head(slots), VK_NOT_READY)>>
  ELSE <<ResultCall(Head(slots), VK_SUCCESS)>>
         \o ReadCallsUntilFailure(Tail(slots), unavailable)

CompleteSubmits(order, ready) ==
  /\ AppCall
  /\ UNCHANGED thread_vars
  /\ last_call' = [name |-> "CompleteSubmits", command_buffer |-> ""]
  /\ LET p == PullCompletedSubmissions(order, ready) IN
     IF p.completed = <<>>
     THEN /\ queue_to_submissions' = p.queue_to_submissions
          /\ driver_calls' = p.probes
          /\ events' = <<>>
          /\ UNCHANGED <<pool_vars, pool_to_command_buffers, command_buffer_to_device,
                         command_buffer_to_state, queue_to_markers, max_depth, env_vars,
                         status>>
     ELSE IF producer = "absent" THEN Undefined      \* (*vulkan_layer_producer_)-> of null
     ELSE LET query_slots_to_reset == QuerySlotsToReset(p.completed)
              unavailable == UnavailableSlots(p.completed, p.queue_to_submissions)
              r == ResetQuerySlots(query_slots, free_slots, query_slots_to_reset)
          IN
          IF Range(query_slots_to_reset) \cap unavailable # {}
          THEN /\ status' = "fatal"
               /\ queue_to_submissions' = p.queue_to_submissions
               /\ events' = CaptureEvents(ReadableSubmissions(p.completed, unavailable))
               /\ driver_calls' = p.probes \o ReadCallsUntilFailure(query_slots_to_reset,
                                                                    unavailable)
               /\ UNCHANGED <<pool_vars, pool_to_command_buffers, command_buffer_to_device,
                              command_buffer_to_state, queue_to_markers, max_depth, env_vars>>
          ELSE IF ~r.check
          THEN /\ status' = "fatal"
               /\ queue_to_submissions' = p.queue_to_submissions
               /\ events' = CaptureEvents(p.completed)
               /\ driver_calls' = p.probes \o ReadCalls(query_slots_to_reset)
                                           \o ResetCalls(r.resets)
               /\ query_slots' = r.query_slots
               /\ free_slots' = r.free_slots
               /\ UNCHANGED <<pool_to_command_buffers, command_buffer_to_device,
                              command_buffer_to_state, queue_to_markers, max_depth, env_vars>>
          ELSE /\ queue_to_submissions' = p.queue_to_submissions
               /\ events' = CaptureEvents(p.completed)
               /\ query_slots' = r.query_slots
               /\ free_slots' = r.free_slots
               /\ driver_calls' = p.probes \o ReadCalls(query_slots_to_reset)
                                           \o ResetCalls(r.resets)
               /\ UNCHANGED <<pool_to_command_buffers, command_buffer_to_device,
                              command_buffer_to_state, queue_to_markers, max_depth, env_vars,
                              status>>

\* ------------------------------------------------------------ environment
\* The sink is brought up or taken down, a capture starts or stops.
SetProducer(p) ==
  /\ status = "running"
  /\ UNCHANGED thread_vars
  /\ last_call' = [name |-> "SetProducer", command_buffer |-> ""]
  /\ p # producer
  /\ producer' = p
  /\ driver_calls' = <<>>
  /\ events' = <<>>
  /\ UNCHANGED <<pool_vars, tracker_vars, clock, submit, pre_submit_timestamp, cb_phase, status>>

\* ---------------------------------------------------------- specification
\* The state after construction, with the pool capacity and the marker depth
\* limit the layer is given.
\* A thread that is in no call into the pool and holds no slot.
Returned ==
  [pc |-> "returned", rented |-> {}, slot_indices |-> <<>>, rollback_only |-> FALSE,
   allocated_index |-> nullopt]

InitState(num_timer_query_slots, depth, sink) ==
  /\ query_slots = InitialQuerySlots(num_timer_query_slots)
  /\ free_slots = InitialFreeSlots(num_timer_query_slots)
  /\ pool_to_command_buffers = <<>>
  /\ command_buffer_to_device = <<>>
  /\ command_buffer_to_state = <<>>
  /\ queue_to_submissions = [q \in Queues |-> <<>>]
  /\ queue_to_markers = [q \in Queues |-> <<>>]
  /\ max_depth = depth
  /\ producer = sink
  /\ clock = 0
  /\ submit = nullopt
  /\ pre_submit_timestamp = nullopt
  /\ cb_phase = [cb \in CommandBuffers |-> "initial"]
  /\ status = "running"
  /\ last_call = [name |-> "SubmissionTracker", command_buffer |-> ""]
  /\ events = <<>>
  /\ driver_calls = <<>>
  /\ mutex_ = nullopt
  /\ pool_calls = [t \in Threads |-> Returned]
  /\ completed_submissions = [t \in Threads |-> <<>>]
  /\ gpu = <<>>

InitWith(num_timer_query_slots, depth) == InitState(num_timer_query_slots, depth, "idle")

\* The application allocates its command buffers from one pool, once.
Allocate(command_buffers) ==
  /\ command_buffer_to_device = <<>>
  /\ TrackCommandBuffers("pool1", command_buffers)

\* A capture starts or stops.
Flip == \E p \in {"idle", "capturing"} : SetProducer(p)

\* Submissions of one submit-info with one or two command buffers.
Batches(command_buffers) ==
  {<<<<a>>>> : a \in command_buffers}
    \cup {<<<<a, b>>>> : a \in command_buffers, b \in command_buffers}

\* Command buffers without debug markers: recorded, reset, submitted and
\* drained while captures start and stop.
Init == InitWith(NumTimerQuerySlots, 0)

Next ==
  \/ Flip
  \/ Allocate(CommandBuffers)
  \/ \E cb \in CommandBuffers : MarkCommandBufferBegin(cb)
  \/ \E cb \in CommandBuffers : MarkCommandBufferEnd(cb)
  \/ \E cb \in CommandBuffers : ResetCommandBuffer(cb)
  \/ \E queue \in Queues, submits \in Batches(CommandBuffers) : PreSubmission(queue, submits)
  \/ \E call \in submit : DoPostSubmitQueue(call.queue, call.submits)
  \/ \E order \in Orders(Queues), ready \in SUBSET ProbeSlots : CompleteSubmits(order, ready)

Spec == Init /\ [][Next]_vars

\* One command buffer with debug markers.
MarkerBuffers == {"cb1"}

MarkerNext ==
  \/ Flip
  \/ Allocate(MarkerBuffers)
  \/ \E cb \in MarkerBuffers : MarkCommandBufferBegin(cb)
  \/ \E cb \in MarkerBuffers : MarkCommandBufferEnd(cb)
  \/ \E cb \in MarkerBuffers, text \in Texts : MarkDebugMarkerBegin(cb, text)
  \/ \E cb \in MarkerBuffers : MarkDebugMarkerEnd(cb)
  \/ \E cb \in MarkerBuffers : ResetCommandBuffer(cb)
  \/ \E queue \in Queues, submits \in Batches(MarkerBuffers) : PreSubmission(queue, submits)
  \/ \E call \in submit : DoPostSubmitQueue(call.queue, call.submits)
  \/ \E order \in Orders(Queues), ready \in SUBSET ProbeSlots : CompleteSubmits(order, ready)

MarkerSpec == Init /\ [][MarkerNext]_vars

\* One command buffer with nested debug markers, under a depth limit, in a
\* capture that runs from the start; the pool has a slot for every timestamp
\* of a command buffer that is begun after the one before was drained.
DepthInit == \E depth \in 1 .. MaxDepth : InitState(2 * depth + 4, depth, "capturing")

\* The application begins a command buffer anew once the tracker has drained
\* the submission that held it.
Drained == \A q \in Queues : queue_to_submissions[q] = <<>>

DepthNext ==
  \/ Allocate(MarkerBuffers)
  \/ \E cb \in MarkerBuffers : Drained /\ MarkCommandBufferBegin(cb)
  \/ \E cb \in MarkerBuffers : MarkCommandBufferEnd(cb)
  \/ \E cb \in MarkerBuffers : MarkDebugMarkerBegin(cb, "A")
  \/ \E cb \in MarkerBuffers : MarkDebugMarkerEnd(cb)
  \/ \E queue \in Queues, cb \in MarkerBuffers : PreSubmission(queue, <<<<cb>>>>)
  \/ \E call \in submit : DoPostSubmitQueue(call.queue, call.submits)
  \/ \E order \in Orders(Queues), ready \in SUBSET ProbeSlots : CompleteSubmits(order, ready)

DepthSpec == DepthInit /\ [][DepthNext]_vars

\* The same application without a depth limit: markers nest as deep as the
\* pool has slots for.
UnlimitedInit == InitState(2 * MaxDepth + 2, 0, "capturing")

UnlimitedSpec == UnlimitedInit /\ [][DepthNext]_vars

\* One command buffer without markers, submitted in any batch of up to two
\* submit-infos: none, empty ones, ones that hold the command buffer.
BatchNext ==
  \/ Flip
  \/ Allocate(MarkerBuffers)
  \/ \E cb \in MarkerBuffers : MarkCommandBufferBegin(cb)
  \/ \E cb \in MarkerBuffers : MarkCommandBufferEnd(cb)
  \/ \E queue \in Queues :
       \E submits \in {s \in SubmitLists : Range(Concat(s)) \subseteq MarkerBuffers} :
         PreSubmission(queue, submits)
  \/ \E call \in submit : DoPostSubmitQueue(call.queue, call.submits)
  \/ \E order \in Orders(Queues), ready \in SUBSET ProbeSlots : CompleteSubmits(order, ready)

BatchSpec == Init /\ [][BatchNext]_vars

\* One command buffer without markers, begun when it has no record, while the
\* sink is brought up and taken down and captures start and stop.
\* ------------------------------------------- CompleteSubmits under threads
\* A pull that would leave what it pulled in flight.
NothingErased(pulled) == queue_to_submissions

\* What PullCompletedSubmissions, which holds the tracker's lock from its
\* first statement to its last, leaves in flight.
RemainingSubmissions(pulled) == pulled.queue_to_submissions

\* CompleteSubmits of a thread up to the return of PullCompletedSubmissions.
PullCompleted(t, order, ready) ==
  /\ status = "running"
  /\ completed_submissions[t] = <<>>
  /\ last_call' = [name |-> "PullCompletedSubmissions", command_buffer |-> "", thread |-> t]
  /\ LET p == PullCompletedSubmissions(order, ready) IN
     /\ queue_to_submissions' = RemainingSubmissions(p)
     /\ completed_submissions' = [completed_submissions EXCEPT ![t] = p.completed]
     /\ driver_calls' = p.probes
  /\ events' = <<>>
  /\ UNCHANGED <<pool_vars, pool_to_command_buffers, command_buffer_to_device,
                 command_buffer_to_state, queue_to_markers, max_depth, env_vars, status,
                 mutex_, pool_calls, gpu>>

\* The rest of CompleteSubmits of a thread that pulled something: the reads,
\* the events, and the release of the slots.
EmitCompleted(t) ==
  /\ status = "running"
  /\ completed_submissions[t] # <<>>
  /\ last_call' = [name |-> "EnqueueCaptureEvent", command_buffer |-> "", thread |-> t]
  /\ UNCHANGED <<mutex_, pool_calls, gpu>>
  /\ IF producer = "absent"
     THEN Undefined /\ UNCHANGED completed_submissions
     ELSE LET completed == completed_submissions[t]
              query_slots_to_reset == QuerySlotsToReset(completed)
              unavailable == UnavailableSlots(completed, queue_to_submissions)
              r == ResetQuerySlots(query_slots, free_slots, query_slots_to_reset)
          IN
          IF Range(query_slots_to_reset) \cap unavailable # {}
          THEN /\ status' = "fatal"
               /\ events' = CaptureEvents(ReadableSubmissions(completed, unavailable))
               /\ driver_calls' = ReadCallsUntilFailure(query_slots_to_reset, unavailable)
               /\ UNCHANGED <<pool_vars, tracker_vars, env_vars, completed_submissions>>
          ELSE /\ status' = IF r.check THEN "running" ELSE "fatal"
               /\ events' = CaptureEvents(completed)
               /\ driver_calls' = ReadCalls(query_slots_to_reset) \o ResetCalls(r.resets)
               /\ query_slots' = r.query_slots
               /\ free_slots' = r.free_slots
               /\ completed_submissions' = [completed_submissions EXCEPT ![t] = <<>>]
               /\ UNCHANGED <<tracker_vars, env_vars>>

\* One command buffer submitted again and again while a capture runs, and
\* threads that complete the submissions.
DrainNext ==
  \/ Allocate(MarkerBuffers)
  \/ \E cb \in MarkerBuffers :
       cb \notin DOMAIN command_buffer_to_state /\ MarkCommandBufferBegin(cb)
  \/ \E cb \in MarkerBuffers : MarkCommandBufferEnd(cb)
  \/ \E queue \in Queues, cb \in MarkerBuffers : PreSubmission(queue, <<<<cb>>>>)
  \/ \E call \in submit : DoPostSubmitQueue(call.queue, call.submits)
  \/ \E t \in Threads, order \in Orders(Queues), ready \in SUBSET ProbeSlots :
       PullCompleted(t, order, ready)
  \/ \E t \in Threads : EmitCompleted(t)

DrainSpec == InitState(2 * MaxSubmissions, 0, "capturing") /\ [][DrainNext]_vars

\* ------------------------------------------------------------- the GPU
\* The slots the recorded commands of the command buffers write a timestamp
\* into: RecordTimestamp records the write and the hooks keep its slot in the
\* record of the command buffer.
RecordedWrites(command_buffers) ==
  UNION {Range(StateSlots(command_buffer_to_state[cb])) :
           cb \in Range(command_buffers) \cap DOMAIN command_buffer_to_state}

\* The driver's vkQueueSubmit, between PreSubmission and DoPostSubmitQueue: it
\* accepts the command buffers for a later execution and returns.
CallQueueSubmit(queue, submits) ==
  /\ status = "running"
  /\ submit = make_optional([queue |-> queue, submits |-> submits])
  /\ last_call.name = "PreSubmission"
  /\ last_call' = [name |-> "CallQueueSubmit", command_buffer |-> ""]
  /\ gpu' = Append(gpu, RecordedWrites(Concat(submits)))
  /\ driver_calls' = <<>>
  /\ events' = <<>>
  /\ UNCHANGED <<pool_vars, tracker_vars, env_vars, status, mutex_, pool_calls,
                 completed_submissions>>

\* The GPU executes the oldest submission it holds: its timestamps are written.
GpuExecute ==
  /\ status = "running"
  /\ gpu # <<>>
  /\ gpu' = Tail(gpu)
  /\ UNCHANGED <<pool_vars, tracker_vars, env_vars, status, last_call, events, driver_calls,
                 mutex_, pool_calls, completed_submissions>>

\* The slots with a timestamp-write the GPU has accepted and not executed.
UnexecutedWrites == UNION Range(gpu)

\* One command buffer recorded and submitted with the capture going on and
\* off, the driver call between the two hooks of a submission, and a driver
\* that reports a result only for what the GPU has executed.
GpuNext ==
  \/ Flip
  \/ Allocate(MarkerBuffers)
  \/ \E cb \in MarkerBuffers :
       cb \notin DOMAIN command_buffer_to_state /\ MarkCommandBufferBegin(cb)
  \/ \E cb \in MarkerBuffers : MarkCommandBufferEnd(cb)
  \/ \E queue \in Queues, cb \in MarkerBuffers :
       Len(gpu) < MaxSubmissions /\ PreSubmission(queue, <<<<cb>>>>)
  \/ \E call \in submit : CallQueueSubmit(call.queue, call.submits)
  \/ \E call \in submit :
       last_call.name = "CallQueueSubmit" /\ DoPostSubmitQueue(call.queue, call.submits)
  \/ GpuExecute
  \/ \E order \in Orders(Queues), ready \in SUBSET (ProbeSlots \ UnexecutedWrites) :
       CompleteSubmits(order, ready)

GpuSpec == Init /\ [][GpuNext]_vars

\* Two command buffers, one of them with begin markers, submitted one at a time.
FrameNext ==
  \/ Flip
  \/ Allocate(CommandBuffers)
  \/ \E cb \in CommandBuffers : MarkCommandBufferBegin(cb)
  \/ \E cb \in CommandBuffers : MarkCommandBufferEnd(cb)
  \/ \E cb \in MarkerBuffers : MarkDebugMarkerBegin(cb, "text1")
  \/ \E queue \in Queues, cb \in CommandBuffers : PreSubmission(queue, <<<<cb>>>>)
  \/ \E call \in submit : DoPostSubmitQueue(call.queue, call.submits)
  \/ \E order \in Orders(Queues), ready \in SUBSET ProbeSlots : CompleteSubmits(order, ready)

FrameSpec == Init /\ [][FrameNext]_vars

SinkNext ==
  \/ \E p \in {"absent", "idle", "capturing"} : SetProducer(p)
  \/ Allocate(MarkerBuffers)
  \/ \E cb \in MarkerBuffers :
       cb \notin DOMAIN command_buffer_to_state /\ MarkCommandBufferBegin(cb)
  \/ \E cb \in MarkerBuffers : MarkCommandBufferEnd(cb)
  \/ \E cb \in MarkerBuffers : ResetCommandBuffer(cb)
  \/ \E queue \in Queues, cb \in MarkerBuffers : PreSubmission(queue, <<<<cb>>>>)
  \/ \E call \in submit : DoPostSubmitQueue(call.queue, call.submits)
  \/ \E order \in Orders(Queues), ready \in SUBSET ProbeSlots : CompleteSubmits(order, ready)

SinkSpec == InitState(NumTimerQuerySlots, 0, "absent") /\ [][SinkNext]_vars

\* Command buffers are allocated from two pools and freed, one at a time, with
\* right and wrong pools and devices, and recorded while tracked, while
\* captures start and stop.
Devices == {device, "device2"}

TrackNext ==
  \/ Flip
  \/ \E pool \in CommandPools, cb \in CommandBuffers : TrackCommandBuffers(pool, {cb})
  \/ \E dev \in Devices, pool \in CommandPools, cb \in CommandBuffers :
       UntrackCommandBuffers(dev, pool, {cb})
  \/ \E cb \in CommandBuffers : Tracked(cb) /\ MarkCommandBufferBegin(cb)
  \/ \E cb \in CommandBuffers : MarkCommandBufferEnd(cb)
  \/ \E pool \in CommandPools : ResetCommandPool(pool)

TrackSpec == Init /\ [][TrackNext]_vars

\* Command buffers are allocated from two pools, recorded and freed as the
\* Vulkan API allows: a handle that is live is not allocated again, and it is
\* freed to the pool and the device it was allocated from.
CommandPoolNext ==
  \/ Flip
  \/ \E pool \in CommandPools, command_buffers \in (SUBSET CommandBuffers) \ {{}} :
       /\ \A cb \in command_buffers : ~Tracked(cb)
       /\ TrackCommandBuffers(pool, command_buffers)
  \/ \E pool \in CommandPools, command_buffers \in (SUBSET CommandBuffers) \ {{}} :
       /\ pool \in DOMAIN pool_to_command_buffers
       /\ command_buffers \subseteq pool_to_command_buffers[pool]
       /\ UntrackCommandBuffers(device, pool, command_buffers)
  \/ \E cb \in CommandBuffers : MarkCommandBufferBegin(cb)
  \/ \E cb \in CommandBuffers : MarkCommandBufferEnd(cb)
  \/ \E pool \in CommandPools : ResetCommandPool(pool)

CommandPoolSpec == Init /\ [][CommandPoolNext]_vars

\* The slot pool alone, called with any slot list: one its contract allows, or
\* one with a ready, a repeated or an out-of-range index.
SlotLists ==
  UNION {[1 .. n -> 0 .. NumTimerQuerySlots] : n \in 0 .. MaxReleaseLen}

Acquire ==
  /\ status = "running"
  /\ UNCHANGED thread_vars
  /\ LET n == NextReadyQuerySlot(query_slots, free_slots) IN
     /\ last_call' = [name |-> "NextReadyQuerySlot", command_buffer |-> "",
                       result |-> n.found,
                       allocated_index |-> IF n.found THEN make_optional(n.allocated_index)
                                           ELSE nullopt]
     /\ query_slots' = n.query_slots
     /\ free_slots' = n.free_slots
     /\ status' = IF n.check THEN "running" ELSE "fatal"
  /\ driver_calls' = <<>>
  /\ events' = <<>>
  /\ UNCHANGED <<tracker_vars, env_vars>>

Release(slot_indices, rollback_only) ==
  /\ status = "running"
  /\ UNCHANGED thread_vars
  /\ last_call' = [name |-> IF rollback_only THEN "RollbackPendingQuerySlots" ELSE "ResetQuerySlots",
                    command_buffer |-> "", slot_indices |-> slot_indices]
  /\ LET r == IF rollback_only
              THEN RollbackPendingQuerySlots(query_slots, free_slots, slot_indices)
              ELSE ResetQuerySlots(query_slots, free_slots, slot_indices) IN
     /\ query_slots' = r.query_slots
     /\ free_slots' = r.free_slots
     /\ status' = IF r.check THEN "running" ELSE "fatal"
     /\ driver_calls' = ResetCalls(r.resets)
  /\ events' = <<>>
  /\ UNCHANGED <<tracker_vars, env_vars>>

PoolNext ==
  \/ Acquire
  \/ \E slot_indices \in SlotLists : Release(slot_indices, FALSE)
  \/ \E slot_indices \in SlotLists : Release(slot_indices, TRUE)

PoolInit == \E n \in 1 .. NumTimerQuerySlots : InitWith(n, 0)

PoolSpec == PoolInit /\ [][PoolNext]_vars

\* ------------------------------------------------ the pool under threads
\* A pool whose operations would not wait for the lock.
MutexIgnored == TRUE

\* absl::WriterMutexLock lock(&mutex_) gets past its constructor.
MutexAvailable == mutex_ = nullopt

\* One step of a thread inside the pool: what it leaves alone and what it shows.
PoolStep(t, pc, calls_made) ==
  /\ last_call' = [name |-> "TimerQueryPool", command_buffer |-> "", thread |-> t, pc |-> pc]
  /\ driver_calls' = calls_made
  /\ events' = <<>>
  /\ UNCHANGED <<tracker_vars, env_vars, completed_submissions, gpu>>

\* NextReadyQuerySlot, entered: the lock is taken.
NextReadyQuerySlotLock(t) ==
  /\ status = "running"
  /\ pool_calls[t].pc = "returned"
  /\ MutexAvailable
  /\ mutex_' = make_optional(t)
  /\ pool_calls' = [pool_calls EXCEPT ![t].pc = "back", ![t].allocated_index = nullopt]
  /\ PoolStep(t, "lock", <<>>)
  /\ UNCHANGED <<pool_vars, status>>

\* if (free_slots.empty()) return false; *allocated_index = free_slots.back();
NextReadyQuerySlotBack(t) ==
  /\ status = "running"
  /\ pool_calls[t].pc = "back"
  /\ IF PoolExhausted(free_slots)
     THEN /\ mutex_' = nullopt
          /\ pool_calls' = [pool_calls EXCEPT ![t].pc = "returned"]
     ELSE /\ pool_calls' = [pool_calls EXCEPT ![t].pc = "pop_back",
                                              ![t].allocated_index =
                                                 make_optional(Last(free_slots))]
          /\ UNCHANGED mutex_
  /\ PoolStep(t, "back", <<>>)
  /\ UNCHANGED <<pool_vars, status>>

\* free_slots.pop_back(), undefined on an empty vector.
NextReadyQuerySlotPopBack(t) ==
  /\ status = "running"
  /\ pool_calls[t].pc = "pop_back"
  /\ IF free_slots = <<>>
     THEN /\ \E s \in {"fatal", "undefined"} : status' = s
          /\ UNCHANGED <<pool_vars, mutex_, pool_calls>>
     ELSE /\ free_slots' = Front(free_slots)
          /\ pool_calls' = [pool_calls EXCEPT ![t].pc = "mark"]
          /\ UNCHANGED <<query_slots, mutex_, status>>
  /\ PoolStep(t, "pop_back", <<>>)

\* CHECK(... == kReadyForQueryIssue); ... = kQueryPendingOnGpu; return true;
NextReadyQuerySlotMark(t) ==
  /\ status = "running"
  /\ pool_calls[t].pc = "mark"
  /\ LET allocated_index == value(pool_calls[t].allocated_index) IN
     IF query_slots[allocated_index] # kReadyForQueryIssue
     THEN /\ status' = "fatal"
          /\ UNCHANGED <<pool_vars, mutex_, pool_calls>>
     ELSE /\ query_slots' = [query_slots EXCEPT ![allocated_index] = kQueryPendingOnGpu]
          /\ mutex_' = nullopt
          /\ pool_calls' = [pool_calls EXCEPT ![t].pc = "returned",
                                              ![t].rented = @ \cup {allocated_index}]
          /\ UNCHANGED <<free_slots, status>>
  /\ PoolStep(t, "mark", <<>>)

\* ResetQuerySlotsInternal, entered with slots the thread holds: an empty
\* list returns at once, any other takes the lock.
ResetQuerySlotsInternalLock(t, slot_indices, rollback_only) ==
  /\ status = "running"
  /\ pool_calls[t].pc = "returned"
  /\ IF slot_indices = <<>>
     THEN UNCHANGED <<mutex_, pool_calls>>
     ELSE /\ MutexAvailable
          /\ mutex_' = make_optional(t)
          /\ pool_calls' = [pool_calls EXCEPT ![t].pc = "check",
                                              ![t].rented = @ \ Range(slot_indices),
                                              ![t].slot_indices = slot_indices,
                                              ![t].rollback_only = rollback_only]
  /\ PoolStep(t, "lock", <<>>)
  /\ UNCHANGED <<pool_vars, status>>

\* The two CHECKs on the next slot of the list, and the slot made ready.
ResetQuerySlotsInternalCheck(t) ==
  /\ status = "running"
  /\ pool_calls[t].pc = "check"
  /\ LET slot_index == Head(pool_calls[t].slot_indices) IN
     IF ~SlotIsPending(query_slots, slot_index)
     THEN /\ status' = "fatal"
          /\ UNCHANGED <<pool_vars, pool_calls>>
     ELSE /\ query_slots' = [query_slots EXCEPT ![slot_index] = kReadyForQueryIssue]
          /\ pool_calls' = [pool_calls EXCEPT ![t].pc = "push_back"]
          /\ UNCHANGED <<free_slots, status>>
  /\ PoolStep(t, "check", <<>>)
  /\ UNCHANGED mutex_

\* free_slots.push_back(slot_index), the driver's reset unless this is a
\* rollback, and on to the next slot or out of the lock.
ResetQuerySlotsInternalPushBack(t) ==
  /\ status = "running"
  /\ pool_calls[t].pc = "push_back"
  /\ LET slot_index == Head(pool_calls[t].slot_indices)
         rest == Tail(pool_calls[t].slot_indices)
     IN /\ free_slots' = Append(free_slots, slot_index)
        /\ pool_calls' = [pool_calls EXCEPT ![t].pc = IF rest = <<>> THEN "returned" ELSE "check",
                                            ![t].slot_indices = rest]
        /\ mutex_' = IF rest = <<>> THEN nullopt ELSE mutex_
        /\ PoolStep(t, "push_back",
                    IF pool_calls[t].rollback_only THEN <<>> ELSE <<ResetCall(slot_index)>>)
  /\ UNCHANGED <<query_slots, status>>

\* The lists of distinct slots a thread holds.
RentedLists(t) ==
  {slot_indices \in SlotLists :
     /\ Range(slot_indices) \subseteq pool_calls[t].rented
     /\ Cardinality(Range(slot_indices)) = Len(slot_indices)}

\* Threads that rent slots and hand back what they rented.
ThreadNext ==
  \/ \E t \in Threads : NextReadyQuerySlotLock(t)
  \/ \E t \in Threads : NextReadyQuerySlotBack(t)
  \/ \E t \in Threads : NextReadyQuerySlotPopBack(t)
  \/ \E t \in Threads : NextReadyQuerySlotMark(t)
  \/ \E t \in Threads : \E slot_indices \in RentedLists(t), rollback_only \in BOOLEAN :
       ResetQuerySlotsInternalLock(t, slot_indices, rollback_only)
  \/ \E t \in Threads : ResetQuerySlotsInternalCheck(t)
  \/ \E t \in Threads : ResetQuerySlotsInternalPushBack(t)

ThreadSpec == Init /\ [][ThreadNext]_vars

\* ================================================================ claims
ReadySlots == {s \in DOMAIN query_slots : query_slots[s] = kReadyForQueryIssue}
PendingSlots == {s \in DOMAIN query_slots : query_slots[s] = kQueryPendingOnGpu}

\* C2: after any sequence of acquire, release-with-hw-reset and release-rollback
\* calls on a pool of capacity N, every slot index in [0, N) is ready or pending
\* and never both, the free-list holds exactly the ready slots, none of them
\* twice, and ready + pending = N.
PoolInvariant ==
  /\ DOMAIN query_slots = 0 .. (Cardinality(DOMAIN query_slots) - 1)
  /\ \A s \in DOMAIN query_slots :
       query_slots[s] \in {kReadyForQueryIssue, kQueryPendingOnGpu}
  /\ ReadySlots \cap PendingSlots = {}
  /\ Range(free_slots) = ReadySlots
  /\ Len(free_slots) = Cardinality(ReadySlots)
  /\ Cardinality(ReadySlots) + Cardinality(PendingSlots) = Cardinality(DOMAIN query_slots)

\* A hardware-reset release has just put a slot back behind one that was never
\* taken, while another slot is still pending.
PoolInvariantWitness ==
  /\ status = "running"
  /\ driver_calls # <<>>
  /\ PendingSlots # {}
  /\ Len(free_slots) >= 2
  /\ free_slots # [i \in 1 .. Len(free_slots) |-> i - 1]

\* What refers to a slot: <<holder kind, holder, position, field, slot>>.
OptionalSlotRefs(kind, holder, n, field, slot_index) ==
  {<<kind, holder, n, field, slot>> : slot \in slot_index}

RecordRefs ==
  UNION {LET state == command_buffer_to_state[cb] IN
         OptionalSlotRefs("record", cb, 0, "begin", state.command_buffer_begin_slot_index)
           \cup OptionalSlotRefs("record", cb, 0, "end", state.command_buffer_end_slot_index)
           \cup UNION {OptionalSlotRefs("record", cb, k, "marker", state.markers[k].slot_index) :
                         k \in 1 .. Len(state.markers)} :
         cb \in DOMAIN command_buffer_to_state}

MarkerStateRefs(kind, holder, n, marker_state) ==
  {<<kind, holder, n, "marker begin", info.slot_index>> : info \in marker_state.begin_info}
    \cup {<<kind, holder, n, "marker end", info.slot_index>> : info \in marker_state.end_info}

SubmissionRefs(q, n) ==
  LET submission == queue_to_submissions[q][n] IN
  UNION {UNION {LET cb == submission.submit_infos[i][j] IN
                OptionalSlotRefs("submission", q, n, "begin", cb.command_buffer_begin_slot_index)
                  \cup {<<"submission", q, n, "end", cb.command_buffer_end_slot_index>>} :
                j \in 1 .. Len(submission.submit_infos[i])} :
         i \in 1 .. Len(submission.submit_infos)}
    \cup UNION {MarkerStateRefs("submission", q, n, submission.completed_markers[k]) :
                 k \in 1 .. Len(submission.completed_markers)}

InFlightRefs ==
  UNION {UNION {SubmissionRefs(q, n) : n \in 1 .. Len(queue_to_submissions[q])} : q \in Queues}

OpenMarkerRefs ==
  UNION {UNION {MarkerStateRefs("stack", q, n, queue_to_markers[q][n]) :
                  n \in 1 .. Len(queue_to_markers[q])} : q \in Queues}

References == RecordRefs \cup InFlightRefs \cup OpenMarkerRefs
ReferencedSlots == {r[5] : r \in References}

\* C1: at every hook boundary the pending slots are the slots referred to by a
\* command-buffer record, an in-flight submission or an open marker of a queue's
\* stack, and nothing refers to a slot twice; deleting a record leaves no pending
\* slot without a reference.
SlotsAccountedFor ==
  status = "running" =>
    /\ PendingSlots = ReferencedSlots
    /\ Cardinality(References) = Cardinality(ReferencedSlots)

\* Nothing is recorded, in flight or open: every command buffer was submitted
\* or reset, every submission was drained and every marker was ended.
Quiescent ==
  /\ status = "running"
  /\ submit = nullopt
  /\ DOMAIN command_buffer_to_state = {}
  /\ \A q \in Queues : queue_to_submissions[q] = <<>> /\ queue_to_markers[q] = <<>>

\* C3: every slot a hook acquired is returned to ready once its command buffer
\* was submitted or reset and its submission was drained, however the capture
\* flag flipped between the hooks: when nothing is left that could return a
\* slot, no slot is pending.
AcquiredSlotsComeBack == Quiescent => PendingSlots = {}

\* The post-submit timestamps of a queue's submissions grow in enqueue order.
EnqueuedBefore(a, b) ==
  a.meta_info.post_submission_cpu_timestamp < b.meta_info.post_submission_cpu_timestamp

\* C4: on every queue the capture events come in enqueue order, whatever the
\* probes report: the events of one complete-submits call are in enqueue order,
\* and an event emitted by the call that follows was enqueued after them.
EmittedInEnqueueOrder ==
  [][/\ \A i \in 1 .. Len(events') : \A j \in (i + 1) .. Len(events') :
          events'[i].queue = events'[j].queue => EnqueuedBefore(events'[i], events'[j])
     /\ \A i \in 1 .. Len(events) : \A j \in 1 .. Len(events') :
          events[i].queue = events'[j].queue => EnqueuedBefore(events[i], events'[j])]_vars

\* The submissions in flight, as <<queue, position in the queue's list>>.
InFlight == UNION {{<<q, n>> : n \in 1 .. Len(queue_to_submissions[q])} : q \in Queues}

\* The slot CompleteSubmits probes for a submission: the end slot of its last
\* command buffer.
ProbeSlot(submission) == Last(Last(submission.submit_infos)).command_buffer_end_slot_index

\* The step is a CompleteSubmits call in which the driver answers the probe of
\* the submission with result.
ProbedAs(submission, result) ==
  /\ last_call'.name = "CompleteSubmits"
  /\ \E k \in 1 .. Len(driver_calls') :
       driver_calls'[k] = ResultCall(ProbeSlot(submission), result)

Times(calls, call) == Cardinality({k \in 1 .. Len(calls) : calls[k] = call})

\* The events of the step that carry the meta information of the submission.
EventsOf(submission) ==
  {k \in 1 .. Len(events') :
     events'[k].meta_info =
       [tid |-> submission.meta_information.thread_id,
        pre_submission_cpu_timestamp |->
          submission.meta_information.pre_submission_cpu_timestamp,
        post_submission_cpu_timestamp |->
          submission.meta_information.post_submission_cpu_timestamp]}

HardwareResets == {k \in 1 .. Len(driver_calls') : driver_calls'[k].call = "ResetQueryPoolEXT"}

\* One submit-info with one command buffer that was begun and ended while
\* capturing, and no marker.
SimpleSubmission(submission) ==
  /\ Len(submission.submit_infos) = 1
  /\ Len(submission.submit_infos[1]) = 1
  /\ has_value(submission.submit_infos[1][1].command_buffer_begin_slot_index)
  /\ submission.completed_markers = <<>>

\* C5: when the probe of the end slot of such a submission reports ready,
\* CompleteSubmits emits exactly one event for it, with one submit-info of one
\* command buffer whose begin and end timestamps are the values the driver holds
\* for the begin and the end slot and whose meta has pre-submit time <= post-submit
\* time, and releases the two slots with one hardware reset each; when it is the
\* only submission in flight, that is the only event and these are the only resets.
SimpleSubmissionCompletes ==
  [][\A at \in InFlight :
       LET submission == queue_to_submissions[at[1]][at[2]]
           cb == submission.submit_infos[1][1]
           begin_slot == value(cb.command_buffer_begin_slot_index)
           end_slot == cb.command_buffer_end_slot_index
       IN (SimpleSubmission(submission) /\ ProbedAs(submission, VK_SUCCESS)) =>
            /\ status' = "running"
            /\ Cardinality(EventsOf(submission)) = 1
            /\ \A k \in EventsOf(submission) :
                 /\ events'[k].submit_infos =
                      <<<<[begin_gpu_timestamp_ns |->
                             make_optional(GetQueryPoolResults(begin_slot)),
                           end_gpu_timestamp_ns |-> GetQueryPoolResults(end_slot)]>>>>
                 /\ events'[k].meta_info.pre_submission_cpu_timestamp
                      <= events'[k].meta_info.post_submission_cpu_timestamp
            /\ Times(driver_calls', ResetCall(begin_slot)) = 1
            /\ Times(driver_calls', ResetCall(end_slot)) = 1
            /\ begin_slot # end_slot
            /\ {begin_slot, end_slot} \subseteq ReadySlots'
            /\ Cardinality(InFlight) = 1 =>
                 /\ Len(events') = 1
                 /\ Cardinality(HardwareResets) = 2
                 /\ ReadySlots' = ReadySlots \cup {begin_slot, end_slot}]_vars

\* CompleteSubmits has just emitted the one event of a simple submission and
\* reset its two slots.
SimpleSubmissionCompletesWitness ==
  /\ status = "running"
  /\ last_call.name = "CompleteSubmits"
  /\ Len(events) = 1
  /\ Len(events[1].submit_infos) = 1
  /\ Len(events[1].submit_infos[1]) = 1
  /\ has_value(events[1].submit_infos[1][1].begin_gpu_timestamp_ns)
  /\ Cardinality({k \in 1 .. Len(driver_calls) :
                    driver_calls[k].call = "ResetQueryPoolEXT"}) = 2
  /\ \A q \in Queues : queue_to_submissions[q] = <<>>

\* The slots a submission in flight refers to.
SlotsOf(at) == {r[5] : r \in SubmissionRefs(at[1], at[2])}

\* The event a submission yields, from its record and the values the driver
\* holds for its slots.
ExpectedMarker(marker_state) ==
  [text_key |-> InternStringIfNecessaryAndGetKey(marker_state.text),
   depth |-> marker_state.depth,
   end_gpu_timestamp_ns |-> GetQueryPoolResults(value(marker_state.end_info).slot_index),
   begin_marker |->
     {[meta_info |-> [tid |-> info.meta_information.thread_id,
                      pre_submission_cpu_timestamp |->
                        info.meta_information.pre_submission_cpu_timestamp,
                      post_submission_cpu_timestamp |->
                        info.meta_information.post_submission_cpu_timestamp],
       gpu_timestamp_ns |-> GetQueryPoolResults(info.slot_index)] :
      info \in marker_state.begin_info}]

ExpectedEvent(queue, submission) ==
  [queue |-> queue,
   meta_info |-> [tid |-> submission.meta_information.thread_id,
                  pre_submission_cpu_timestamp |->
                    submission.meta_information.pre_submission_cpu_timestamp,
                  post_submission_cpu_timestamp |->
                    submission.meta_information.post_submission_cpu_timestamp],
   submit_infos |->
     [i \in 1 .. Len(submission.submit_infos) |->
        [j \in 1 .. Len(submission.submit_infos[i]) |->
           [begin_gpu_timestamp_ns |->
              {GetQueryPoolResults(slot) :
                 slot \in submission.submit_infos[i][j].command_buffer_begin_slot_index},
            end_gpu_timestamp_ns |->
              GetQueryPoolResults(
                submission.submit_infos[i][j].command_buffer_end_slot_index)]]],
   completed_markers |->
     [k \in 1 .. Len(submission.completed_markers) |->
        ExpectedMarker(submission.completed_markers[k])],
   num_begin_markers |-> submission.num_begin_markers]

\* C6: when the probe of a submission's end slot reports not ready,
\* CompleteSubmits emits no event for it, resets none of its slots and leaves
\* its record in flight as it was.  A record in flight changes in no step; it
\* leaves the list only in a step that emits its event, once, and that event is
\* made of the record and the driver's values alone - the event the first call
\* would have emitted.
NotReadyStaysInFlight ==
  [][\A at \in InFlight :
       LET submission == queue_to_submissions[at[1]][at[2]]
           left == {n \in 1 .. Len(queue_to_submissions'[at[1]]) :
                      queue_to_submissions'[at[1]][n] = submission}
       IN /\ ProbedAs(submission, VK_NOT_READY) =>
               /\ Cardinality(left) = 1
               /\ EventsOf(submission) = {}
               /\ SlotsOf(at) \subseteq PendingSlots'
               /\ \A slot \in SlotsOf(at) : Times(driver_calls', ResetCall(slot)) = 0
          /\ \/ Cardinality(left) = 1 /\ EventsOf(submission) = {}
             \/ /\ left = {}
                /\ ProbedAs(submission, VK_SUCCESS)
                /\ Cardinality(EventsOf(submission)) = 1
                /\ \A k \in EventsOf(submission) :
                     events'[k] = ExpectedEvent(at[1], submission)]_vars

\* CompleteSubmits has just been told that the one submission in flight is
\* not ready.
NotReadyStaysInFlightWitness ==
  /\ status = "running"
  /\ last_call.name = "CompleteSubmits"
  /\ events = <<>>
  /\ \E q \in Queues :
       /\ Len(queue_to_submissions[q]) = 1
       /\ driver_calls = <<ResultCall(ProbeSlot(queue_to_submissions[q][1]), VK_NOT_READY)>>
       /\ PendingSlots = {r[5] : r \in SubmissionRefs(q, 1)}

\* C8: a submission recorded and post-submitted while capturing whose probe
\* reports ready in a CompleteSubmits call made while the capture flag is off
\* is emitted, once, and each of its slots gets its hardware reset.
EmittedAfterCaptureStopped ==
  [][~IsCapturing =>
       \A at \in InFlight :
         LET submission == queue_to_submissions[at[1]][at[2]] IN
         ProbedAs(submission, VK_SUCCESS) =>
           /\ status' = "running"
           /\ Cardinality(EventsOf(submission)) = 1
           /\ \A slot \in SlotsOf(at) : Times(driver_calls', ResetCall(slot)) = 1
           /\ SlotsOf(at) \subseteq ReadySlots']_vars

\* With the capture flag off, CompleteSubmits has just emitted a submission
\* whose command buffer was begun while capturing, and reset its slots.
EmittedAfterCaptureStoppedWitness ==
  /\ status = "running"
  /\ last_call.name = "CompleteSubmits"
  /\ ~IsCapturing
  /\ events # <<>>
  /\ has_value(events[1].submit_infos[1][1].begin_gpu_timestamp_ns)
  /\ \E k \in 1 .. Len(driver_calls) : driver_calls[k].call = "ResetQueryPoolEXT"

\* The slots the records of the command buffers cbs refer to.
RecordSlots(cbs) == {r[5] : r \in {x \in RecordRefs : x[2] \in cbs}}

\* C7: a post-submit made while the capture flag is off, or without the
\* pre-submit value, resets in the driver every slot (begin, end, marker) of
\* every submitted command buffer that has a record, each once, and nothing
\* else; it deletes those records, emits no event and enqueues no submission, so
\* that none of the slots is one a later CompleteSubmits would probe.
PostSubmitWithoutCapture ==
  [][(/\ last_call'.name = "DoPostSubmitQueue"
      /\ ~IsCapturing \/ ~has_value(pre_submit_timestamp)) =>
       LET referenced == Range(Concat(value(submit).submits))
                           \cap DOMAIN command_buffer_to_state
           slots == RecordSlots(referenced)
       IN /\ status' = "running"
          /\ \A slot \in slots : Times(driver_calls', ResetCall(slot)) = 1
          /\ Cardinality(HardwareResets) = Cardinality(slots)
          /\ Len(driver_calls') = Cardinality(slots)
          /\ ReadySlots' = ReadySlots \cup slots
          /\ DOMAIN command_buffer_to_state' = DOMAIN command_buffer_to_state \ referenced
          /\ \A cb \in DOMAIN command_buffer_to_state' :
               command_buffer_to_state'[cb] = command_buffer_to_state[cb]
          /\ events' = <<>>
          /\ queue_to_submissions' = queue_to_submissions
          /\ queue_to_markers' = queue_to_markers
          /\ slots \cap ProbeSlots' = {}]_vars

\* A post-submit has just reset a begin slot, an end slot and a marker slot in
\* the driver and left nothing recorded or in flight.
PostSubmitWithoutCaptureWitness ==
  /\ status = "running"
  /\ last_call.name = "DoPostSubmitQueue"
  /\ Len(driver_calls) = 3
  /\ \A k \in 1 .. Len(driver_calls) : driver_calls[k].call = "ResetQueryPoolEXT"
  /\ events = <<>>
  /\ DOMAIN command_buffer_to_state = {}
  /\ \A q \in Queues : queue_to_submissions[q] = <<>>

\* C9: ResetCommandBuffer on a command buffer with a record makes every slot
\* of the record (begin, end, marker) ready again without any driver call, and
\* deletes the record; on a command buffer without a record it changes nothing
\* in the pool or the tracker and calls nothing.
ResetBufferRollsBack ==
  [][\A cb \in CommandBuffers :
       last_call' = [name |-> "ResetCommandBuffer", command_buffer |-> cb] =>
         /\ status' = "running"
         /\ driver_calls' = <<>>
         /\ events' = <<>>
         /\ IF cb \in DOMAIN command_buffer_to_state
            THEN /\ ReadySlots' = ReadySlots \cup RecordSlots({cb})
                 /\ Range(free_slots') = ReadySlots'
                 /\ Len(free_slots') = Len(free_slots) + Cardinality(RecordSlots({cb}))
                 /\ DOMAIN command_buffer_to_state' = DOMAIN command_buffer_to_state \ {cb}
                 /\ \A other \in DOMAIN command_buffer_to_state' :
                      command_buffer_to_state'[other] = command_buffer_to_state[other]
                 /\ UNCHANGED <<pool_to_command_buffers, command_buffer_to_device,
                                queue_to_submissions, queue_to_markers, max_depth>>
            ELSE UNCHANGED <<pool_vars, tracker_vars>>]_vars

\* ResetCommandBuffer has just run while capturing, without a driver call, and
\* every slot is ready, some not at their first place in the free list.
ResetBufferRollsBackWitness ==
  /\ status = "running"
  /\ last_call.name = "ResetCommandBuffer"
  /\ IsCapturing
  /\ clock = 0
  /\ driver_calls = <<>>
  /\ DOMAIN command_buffer_to_state = {}
  /\ ReadySlots = DOMAIN query_slots
  /\ free_slots # InitialFreeSlots(Len(free_slots))

\* The step is a capturing post-submit of the one command buffer cb on queue q
\* that went through, and cb's record held one marker entry of the given type
\* with a slot.
SubmitsOneMarker(q, cb, type) ==
  /\ last_call'.name = "DoPostSubmitQueue"
  /\ IsCapturing /\ has_value(pre_submit_timestamp)
  /\ status' = "running"
  /\ submit = make_optional([queue |-> q, submits |-> <<<<cb>>>>])
  /\ cb \in DOMAIN command_buffer_to_state
  /\ Len(command_buffer_to_state[cb].markers) = 1
  /\ command_buffer_to_state[cb].markers[1].type = type
  /\ has_value(command_buffer_to_state[cb].markers[1].slot_index)

\* C10: a begin marker with a slot, submitted while the queue's stack is empty,
\* leaves one open marker with its text, its slot with the meta of that
\* submission, and depth 0, and counts 1 in that submission's num_begin_markers,
\* which gets no completed marker.  The end marker with a slot of a later
\* submission closes it: the stack is empty again, and the later submission
\* gets the one completed marker, with the end slot added, and
\* num_begin_markers 0.  A submission's record then stays as it is until its
\* event is emitted, and the event reports its completed markers with the key
\* of the text, the depth, the driver's values for both slots and the begin's
\* meta, and its num_begin_markers.
CrossSubmissionMarker ==
  [][/\ \A q \in Queues, cb \in CommandBuffers :
          LET marker == command_buffer_to_state[cb].markers[1]
              entered == Last(queue_to_submissions'[q])
              open == queue_to_markers[q][1]
          IN /\ (SubmitsOneMarker(q, cb, kDebugMarkerBegin) /\ queue_to_markers[q] = <<>>) =>
                  /\ queue_to_markers'[q] =
                       <<[text |-> value(marker.text),
                          begin_info |->
                            make_optional([meta_information |-> entered.meta_information,
                                           slot_index |-> value(marker.slot_index)]),
                          end_info |-> nullopt,
                          depth |-> 0]>>
                  /\ entered.num_begin_markers = 1
                  /\ entered.completed_markers = <<>>
             /\ (/\ SubmitsOneMarker(q, cb, kDebugMarkerEnd)
                 /\ Len(queue_to_markers[q]) = 1
                 /\ has_value(queue_to_markers[q][1].begin_info)) =>
                  /\ queue_to_markers'[q] = <<>>
                  /\ entered.num_begin_markers = 0
                  /\ entered.completed_markers =
                       <<[text |-> open.text,
                          begin_info |-> open.begin_info,
                          end_info |->
                            make_optional([meta_information |-> entered.meta_information,
                                           slot_index |-> value(marker.slot_index)]),
                          depth |-> open.depth]>>
                  /\ value(open.begin_info).meta_information # entered.meta_information
     /\ \A at \in InFlight :
          LET submission == queue_to_submissions[at[1]][at[2]] IN
          \/ /\ \E n \in 1 .. Len(queue_to_submissions'[at[1]]) :
                  queue_to_submissions'[at[1]][n] = submission
             /\ EventsOf(submission) = {}
          \/ status' # "running"
          \/ /\ Cardinality(EventsOf(submission)) = 1
             /\ \A k \in EventsOf(submission) :
                  events'[k] = ExpectedEvent(at[1], submission)]_vars

\* CompleteSubmits has just emitted an event with num_begin_markers 0 and one
\* completed marker of depth 0 whose begin carries the meta of an earlier
\* submission.
CrossSubmissionMarkerWitness ==
  /\ status = "running"
  /\ last_call.name = "CompleteSubmits"
  /\ \E k \in 1 .. Len(events) :
       /\ events[k].num_begin_markers = 0
       /\ Len(events[k].completed_markers) = 1
       /\ events[k].completed_markers[1].depth = 0
       /\ \E begin \in events[k].completed_markers[1].begin_marker :
            /\ begin.meta_info.post_submission_cpu_timestamp
                 < events[k].meta_info.pre_submission_cpu_timestamp
            /\ begin.gpu_timestamp_ns # events[k].completed_markers[1].end_gpu_timestamp_ns

\* How many markers are open within a command buffer after the entries
\* markers: a begin opens one, an end closes one if one is open.
RECURSIVE NestingAfter(_)
NestingAfter(markers) ==
  IF markers = <<>> THEN 0
  ELSE LET before == NestingAfter(Front(markers)) IN
       IF Last(markers).type = kDebugMarkerBegin THEN before + 1
       ELSE IF before > 0 THEN before - 1 ELSE 0

MarkerTypes(markers) == [i \in 1 .. Len(markers) |-> markers[i].type]

ThreeNested ==
  <<kDebugMarkerBegin, kDebugMarkerBegin, kDebugMarkerBegin,
    kDebugMarkerEnd, kDebugMarkerEnd, kDebugMarkerEnd>>

\* C11: with a depth limit D > 0, a capture running and a slot left in the
\* pool, a marker hook appends its entry in any case and gives it a slot
\* exactly when the marker's depth
\* within the command buffer - for a begin the depth after it, for an end the
\* depth before it - is at most D, so that a begin beyond D and its end both go
\* without a slot and every pair within D has both.  With D = 2 the post-submit
\* of begin, begin, begin, end, end, end on an empty stack gives the submission
\* two completed markers, of depths 1 and 0 in closing order, and the event
\* reports the completed markers of the submission with their depths.
MarkersUnderDepthLimit ==
  [][/\ \A cb \in CommandBuffers :
          (/\ last_call'.command_buffer = cb
           /\ last_call'.name \in {"MarkDebugMarkerBegin", "MarkDebugMarkerEnd"}
           /\ IsCapturing /\ max_depth > 0
           /\ ReadySlots # {}) =>
            LET before == command_buffer_to_state[cb].markers
                after == command_buffer_to_state'[cb].markers
                begin == last_call'.name = "MarkDebugMarkerBegin"
                depth == IF begin THEN NestingAfter(before) + 1 ELSE NestingAfter(before)
            IN /\ status' = "running"
               /\ Len(after) = Len(before) + 1
               /\ Front(after) = before
               /\ Last(after).type = IF begin THEN kDebugMarkerBegin ELSE kDebugMarkerEnd
               /\ has_value(Last(after).slot_index) <=> depth <= max_depth
               /\ \A slot \in Last(after).slot_index :
                    slot \in ReadySlots /\ slot \in PendingSlots'
               /\ ~has_value(Last(after).slot_index) => UNCHANGED pool_vars
     /\ \A q \in Queues, cb \in CommandBuffers :
          (/\ last_call'.name = "DoPostSubmitQueue"
           /\ IsCapturing /\ has_value(pre_submit_timestamp) /\ max_depth = 2
           /\ submit = make_optional([queue |-> q, submits |-> <<<<cb>>>>])
           /\ cb \in DOMAIN command_buffer_to_state
           /\ MarkerTypes(command_buffer_to_state[cb].markers) = ThreeNested
           /\ queue_to_markers[q] = <<>>) =>
            LET entered == Last(queue_to_submissions'[q]) IN
            /\ status' = "running"
            /\ Len(queue_to_submissions'[q]) = Len(queue_to_submissions[q]) + 1
            /\ Len(entered.completed_markers) = 2
            /\ entered.completed_markers[1].depth = 1
            /\ entered.completed_markers[2].depth = 0
            /\ \A k \in 1 .. 2 : /\ has_value(entered.completed_markers[k].begin_info)
                                 /\ has_value(entered.completed_markers[k].end_info)
            /\ has_value(entered.submit_infos[1][1].command_buffer_begin_slot_index)
            /\ queue_to_markers'[q] = <<>>
     /\ \A at \in InFlight :
          LET submission == queue_to_submissions[at[1]][at[2]] IN
          \A k \in EventsOf(submission) :
            /\ Len(events'[k].completed_markers) = Len(submission.completed_markers)
            /\ \A i \in 1 .. Len(submission.completed_markers) :
                 events'[k].completed_markers[i].depth = submission.completed_markers[i].depth
            /\ \A cbs \in Range(events'[k].submit_infos) : \A proto \in Range(cbs) :
                 has_value(proto.begin_gpu_timestamp_ns)]_vars

\* With a limit of 2, the third end marker of begin, begin, begin, end, end,
\* end has just been recorded: the two outer pairs have slots, the inner has none.
MarkersUnderDepthLimitWitness ==
  /\ status = "running"
  /\ max_depth = 2
  /\ last_call.name = "MarkDebugMarkerEnd"
  /\ \E cb \in DOMAIN command_buffer_to_state :
       LET markers == command_buffer_to_state[cb].markers IN
       /\ MarkerTypes(markers) = ThreeNested
       /\ {i \in 1 .. 6 : has_value(markers[i].slot_index)} = {1, 2, 5, 6}

\* The step is a capturing post-submit of the one command buffer cb on queue q
\* that went through, and cb's record held one marker entry, of the given type.
SubmitsOneEntry(q, cb, type) ==
  /\ last_call'.name = "DoPostSubmitQueue"
  /\ IsCapturing /\ has_value(pre_submit_timestamp)
  /\ status' = "running"
  /\ submit = make_optional([queue |-> q, submits |-> <<<<cb>>>>])
  /\ cb \in DOMAIN command_buffer_to_state
  /\ Len(command_buffer_to_state[cb].markers) = 1
  /\ command_buffer_to_state[cb].markers[1].type = type

\* The open marker, closed by an end entry submitted with meta information meta.
Closed(open, marker, meta) ==
  [text |-> open.text,
   begin_info |-> open.begin_info,
   end_info |-> {[meta_information |-> meta, slot_index |-> slot] : slot \in marker.slot_index},
   depth |-> open.depth]

\* C12: in a capturing post-submit an end entry pops the top of the queue's
\* marker stack, and the popped marker joins the submission's completed
\* markers whenever the end entry carried a slot or the popped begin carried
\* one, with the side that has no slot left absent.
EndEntryCompletesEitherSide ==
  [][\A q \in Queues, cb \in CommandBuffers :
       (SubmitsOneEntry(q, cb, kDebugMarkerEnd) /\ queue_to_markers[q] # <<>>) =>
         LET marker == command_buffer_to_state[cb].markers[1]
             open == Last(queue_to_markers[q])
             entered == Last(queue_to_submissions'[q])
         IN /\ queue_to_markers'[q] = Front(queue_to_markers[q])
            /\ entered.completed_markers =
                 IF has_value(marker.slot_index) \/ has_value(open.begin_info)
                 THEN <<Closed(open, marker, entered.meta_information)>>
                 ELSE <<>>]_vars

\* C13: in a capturing post-submit the marker popped by an end entry joins the
\* submission's completed markers if and only if the end entry carried a slot.
\* Its begin info is present exactly when the begin entry carried a slot: the
\* begin entry's push sets it so, the pop keeps it, and the event has a begin
\* marker exactly when the completed marker has a begin info.
EndEntryCompletesWithSlot ==
  [][/\ \A q \in Queues, cb \in CommandBuffers :
          LET marker == command_buffer_to_state[cb].markers[1]
              entered == Last(queue_to_submissions'[q])
          IN /\ (SubmitsOneEntry(q, cb, kDebugMarkerEnd) /\ queue_to_markers[q] # <<>>) =>
                  /\ queue_to_markers'[q] = Front(queue_to_markers[q])
                  /\ entered.completed_markers =
                       IF has_value(marker.slot_index)
                       THEN <<Closed(Last(queue_to_markers[q]), marker,
                                     entered.meta_information)>>
                       ELSE <<>>
             /\ SubmitsOneEntry(q, cb, kDebugMarkerBegin) =>
                  /\ Front(queue_to_markers'[q]) = queue_to_markers[q]
                  /\ Last(queue_to_markers'[q]).begin_info =
                       {[meta_information |-> entered.meta_information, slot_index |-> slot] :
                          slot \in marker.slot_index}
                  /\ entered.completed_markers = <<>>
     /\ \A at \in InFlight :
          LET submission == queue_to_submissions[at[1]][at[2]] IN
          \A k \in EventsOf(submission) :
            /\ Len(events'[k].completed_markers) = Len(submission.completed_markers)
            /\ \A i \in 1 .. Len(submission.completed_markers) :
                 has_value(events'[k].completed_markers[i].begin_marker)
                   <=> has_value(submission.completed_markers[i].begin_info)]_vars

\* A post-submit has just closed a marker whose begin entry had no slot with
\* an end entry that had one: the completed marker has an end and no begin.
EndEntryCompletesWithSlotWitness ==
  /\ status = "running"
  /\ last_call.name = "DoPostSubmitQueue"
  /\ \E q \in Queues :
       /\ queue_to_submissions[q] # <<>>
       /\ Len(Last(queue_to_submissions[q]).completed_markers) = 1
       /\ ~has_value(Last(queue_to_submissions[q]).completed_markers[1].begin_info)
       /\ has_value(Last(queue_to_submissions[q]).completed_markers[1].end_info)

HasEndSlot(cb) == has_value(command_buffer_to_state[cb].command_buffer_end_slot_index)

\* What a record contributes to a submit-info.
Submitted(cb) ==
  [command_buffer_begin_slot_index |->
     command_buffer_to_state[cb].command_buffer_begin_slot_index,
   command_buffer_end_slot_index |->
     value(command_buffer_to_state[cb].command_buffer_end_slot_index)]

\* C14: in a capturing post-submit of command buffers that have a record, a
\* command buffer whose record has no end slot is left out of the submission
\* record without a fatal error, and the other command buffers of the
\* submission are recorded, in their order.
EndlessBufferDropped ==
  [][(/\ last_call'.name = "DoPostSubmitQueue"
      /\ IsCapturing /\ has_value(pre_submit_timestamp)
      /\ \A cb \in Range(Concat(value(submit).submits)) :
           cb \in DOMAIN command_buffer_to_state
      /\ \A i, j \in 1 .. Len(Concat(value(submit).submits)) :
           Concat(value(submit).submits)[i] = Concat(value(submit).submits)[j] => i = j) =>
       LET q == value(submit).queue
           submits == value(submit).submits
           entered == Last(queue_to_submissions'[q])
       IN /\ status' = "running"
          /\ Len(queue_to_submissions'[q]) = Len(queue_to_submissions[q]) + 1
          /\ entered.submit_infos =
               [i \in 1 .. Len(submits) |->
                  LET kept == SelectSeq(submits[i], HasEndSlot) IN
                  [j \in 1 .. Len(kept) |-> Submitted(kept[j])]]]_vars

\* C15: within one CompleteSubmits call, once the probe of a submission of a
\* queue reports not ready, no submission behind it on that queue is probed or
\* removed.
ScanStopsAtNotReady ==
  [][\A q \in Queues : \A n, m \in 1 .. Len(queue_to_submissions[q]) :
       (n < m /\ ProbedAs(queue_to_submissions[q][n], VK_NOT_READY)) =>
         /\ \A result \in {VK_SUCCESS, VK_NOT_READY} :
              ~ProbedAs(queue_to_submissions[q][m], result)
         /\ \E k \in 1 .. Len(queue_to_submissions'[q]) :
              queue_to_submissions'[q][k] = queue_to_submissions[q][m]]_vars

\* The submit-infos of a submission that hold a command buffer.
Holding(submission) ==
  {i \in 1 .. Len(submission.submit_infos) : submission.submit_infos[i] # <<>>}

\* The end slot of the last command buffer of the last submit-info that holds one.
LastEndSlot(submission) ==
  LET last == CHOOSE i \in Holding(submission) : \A j \in Holding(submission) : j <= i
  IN Last(submission.submit_infos[last]).command_buffer_end_slot_index

\* The submission is in flight before the step and not after it.
Removed(at) ==
  \A n \in 1 .. Len(queue_to_submissions'[at[1]]) :
    queue_to_submissions'[at[1]][n] # queue_to_submissions[at[1]][at[2]]

\* C16: of a submission in flight that holds a command buffer, CompleteSubmits
\* probes the end slot of the last command buffer of the last submit-info that
\* holds one, also when empty submit-infos follow it: the submission at the
\* head of a queue is probed at that slot in every call, and a submission is
\* removed only in a call in which the probe of that slot reported ready.
ProbesLastCommandBuffer ==
  [][last_call'.name = "CompleteSubmits" =>
       \A at \in InFlight :
         LET submission == queue_to_submissions[at[1]][at[2]] IN
         Holding(submission) # {} =>
           /\ at[2] = 1 =>
                \E result \in {VK_SUCCESS, VK_NOT_READY} :
                  Times(driver_calls', ResultCall(LastEndSlot(submission), result)) >= 1
           /\ Removed(at) =>
                Times(driver_calls', ResultCall(LastEndSlot(submission), VK_SUCCESS)) >= 1]_vars

\* C17: a submission that leaves a queue's in-flight list is emitted as one
\* event, made of its whole record, or dropped without one, and in either
\* case every slot it refers to is ready afterwards.
RemovedIsEmittedOrReleased ==
  [][\A at \in InFlight :
       (Removed(at) /\ status' = "running") =>
         /\ SlotsOf(at) \subseteq ReadySlots'
         /\ \/ EventsOf(queue_to_submissions[at[1]][at[2]]) = {}
            \/ /\ Cardinality(EventsOf(queue_to_submissions[at[1]][at[2]])) = 1
               /\ \A k \in EventsOf(queue_to_submissions[at[1]][at[2]]) :
                    events'[k] = ExpectedEvent(at[1], queue_to_submissions[at[1]][at[2]])]_vars

\* C19: TrackCommandBuffers ends the process when one of the command buffers
\* it is given is already tracked.
TrackTwiceIsFatal ==
  [][(/\ last_call'.name = "TrackCommandBuffers"
      /\ last_call'.command_buffers \cap DOMAIN command_buffer_to_device # {}) =>
       status' = "fatal"]_vars

\* The command buffer is tracked under the pool and the device.
TrackedUnder(cb, pool, dev) ==
  /\ pool \in DOMAIN pool_to_command_buffers
  /\ cb \in pool_to_command_buffers[pool]
  /\ cb \in DOMAIN command_buffer_to_device
  /\ command_buffer_to_device[cb] = dev

\* C20: UntrackCommandBuffers ends the process when one of the command buffers
\* it is given is not tracked under the pool and the device it is given: one
\* that was never tracked, one that was untracked before, one of another pool.
UntrackUntrackedIsFatal ==
  [][(/\ last_call'.name = "UntrackCommandBuffers"
      /\ \E cb \in last_call'.command_buffers :
           ~TrackedUnder(cb, last_call'.pool, last_call'.device)) =>
       status' = "fatal"]_vars

UntrackDeletesRecord ==
  [][(/\ last_call'.name = "UntrackCommandBuffers"
      /\ status' = "running") =>
       \A cb \in last_call'.command_buffers :
         /\ cb \notin DOMAIN command_buffer_to_state'
         /\ cb \in DOMAIN command_buffer_to_state =>
              \A s \in Range(StateSlots(command_buffer_to_state[cb])) :
                query_slots'[s] = kReadyForQueryIssue]_vars

\* C22: a DoPostSubmitQueue that is given a command buffer without a record -
\* the record was consumed by an earlier post-submit and the command buffer was
\* not begun again - returns in either regime, and leaves every pending slot
\* referred to exactly once.
ResubmissionSurvives ==
  [][(/\ last_call'.name = "DoPostSubmitQueue"
      /\ \E cb \in Range(Concat(value(submit).submits)) :
           cb \notin DOMAIN command_buffer_to_state) =>
       /\ status' = "running"
       /\ SlotsAccountedFor => SlotsAccountedFor']_vars

\* C23: MarkCommandBufferEnd rents no slot and records no timestamp-write for a
\* command buffer whose record has no begin slot - its MarkCommandBufferBegin ran
\* while no capture was running - whether or not a capture is running now.
EndWithoutCapturedBegin ==
  [][(/\ last_call'.name = "MarkCommandBufferEnd"
      /\ last_call'.command_buffer \in DOMAIN command_buffer_to_state
      /\ ~has_value(command_buffer_to_state[last_call'.command_buffer]
                      .command_buffer_begin_slot_index)) =>
       /\ query_slots' = query_slots
       /\ free_slots' = free_slots
       /\ driver_calls' = <<>>]_vars

RecordingHooks ==
  {"MarkCommandBufferBegin", "MarkCommandBufferEnd", "MarkDebugMarkerBegin",
   "MarkDebugMarkerEnd"}

\* C24: a recording hook - MarkCommandBufferBegin, MarkCommandBufferEnd,
\* MarkDebugMarkerBegin, MarkDebugMarkerEnd - that runs while no capture is
\* running rents no slot and records no timestamp-write.  When it returns,
\* MarkCommandBufferBegin has created an empty record, MarkCommandBufferEnd has
\* left the records as they were, and a marker hook has appended one entry of
\* its type, without a slot, to the markers of the record.
InactiveHooksRentNothing ==
  [][(/\ last_call'.name \in RecordingHooks
      /\ producer # "capturing") =>
       LET name == last_call'.name
           cb == last_call'.command_buffer
       IN
       /\ query_slots' = query_slots
       /\ free_slots' = free_slots
       /\ driver_calls' = <<>>
       /\ status' = "running" =>
            /\ cb \in DOMAIN command_buffer_to_state'
            /\ \A other \in DOMAIN command_buffer_to_state' \ {cb} :
                 /\ other \in DOMAIN command_buffer_to_state
                 /\ command_buffer_to_state'[other] = command_buffer_to_state[other]
            /\ name = "MarkCommandBufferBegin" =>
                 /\ cb \notin DOMAIN command_buffer_to_state
                 /\ command_buffer_to_state'[cb].command_buffer_begin_slot_index = nullopt
                 /\ command_buffer_to_state'[cb].command_buffer_end_slot_index = nullopt
                 /\ command_buffer_to_state'[cb].markers = <<>>
            /\ name = "MarkCommandBufferEnd" =>
                 command_buffer_to_state' = command_buffer_to_state
            /\ name \in {"MarkDebugMarkerBegin", "MarkDebugMarkerEnd"} =>
                 LET before == command_buffer_to_state[cb]
                     after == command_buffer_to_state'[cb]
                 IN
                 /\ after.command_buffer_begin_slot_index = before.command_buffer_begin_slot_index
                 /\ after.command_buffer_end_slot_index = before.command_buffer_end_slot_index
                 /\ Len(after.markers) = Len(before.markers) + 1
                 /\ Front(after.markers) = before.markers
                 /\ Last(after.markers).slot_index = nullopt
                 /\ Last(after.markers).type =
                      IF name = "MarkDebugMarkerBegin" THEN kDebugMarkerBegin
                      ELSE kDebugMarkerEnd]_vars

\* A capture was running when the command buffer was begun and had stopped
\* when a marker was begun in it: the record has a begin slot, its last marker
\* entry has none.
InactiveHooksRentNothingWitness ==
  /\ status = "running"
  /\ last_call.name = "MarkDebugMarkerBegin"
  /\ producer = "idle"
  /\ LET state == command_buffer_to_state[last_call.command_buffer] IN
     /\ has_value(state.command_buffer_begin_slot_index)
     /\ Last(state.markers).type = kDebugMarkerBegin
     /\ Last(state.markers).slot_index = nullopt

\* The command buffers a pool's entry holds.
BuffersOf(pool) ==
  IF pool \in DOMAIN pool_to_command_buffers THEN pool_to_command_buffers[pool] ELSE {}

\* C25: ResetCommandPool(P) returns having deleted the record of every command
\* buffer tracked under P and made every slot of those records ready again,
\* without a driver reset; the records of all other command buffers, every other
\* slot, and the pool-to-buffer and buffer-to-device mappings are as before.
\* With no command buffer tracked under P nothing changes.
ResetPoolResetsItsBuffers ==
  [][last_call'.name = "ResetCommandPool" =>
       LET under == BuffersOf(last_call'.pool)
           rolled == RecordSlots(under \cap DOMAIN command_buffer_to_state)
       IN
       /\ status' = "running"
       /\ DOMAIN command_buffer_to_state' = (DOMAIN command_buffer_to_state) \ under
       /\ \A cb \in DOMAIN command_buffer_to_state' :
            command_buffer_to_state'[cb] = command_buffer_to_state[cb]
       /\ \A s \in DOMAIN query_slots :
            query_slots'[s] = IF s \in rolled THEN kReadyForQueryIssue ELSE query_slots[s]
       /\ driver_calls' = <<>>
       /\ pool_to_command_buffers' = pool_to_command_buffers
       /\ command_buffer_to_device' = command_buffer_to_device
       /\ under = {} => UNCHANGED <<pool_vars, tracker_vars>>]_vars

\* ResetCommandPool has just rolled back the slots of its pool's command buffer
\* while a command buffer of another pool keeps its record and its slot.
ResetPoolResetsItsBuffersWitness ==
  /\ status = "running"
  /\ last_call.name = "ResetCommandPool"
  /\ BuffersOf(last_call.pool) # {}
  /\ free_slots # [i \in 1 .. Len(free_slots) |-> i - 1]
  /\ \E cb \in DOMAIN command_buffer_to_state :
       /\ cb \notin BuffersOf(last_call.pool)
       /\ has_value(command_buffer_to_state[cb].command_buffer_begin_slot_index)

\* C26: an UntrackCommandBuffers that directly follows a TrackCommandBuffers
\* with the same pool, device and command buffers returns, and leaves the
\* pool-to-buffers and the buffer-to-device mappings as the track found them: the
\* entry of a pool that the track created is dropped again.  The command
\* buffers can be tracked again (C19, C20 and C21 say what becomes of a track
\* or an untrack outside this order, and of the records).
TrackThenUntrackRestores ==
  [][(/\ last_call.name = "TrackCommandBuffers"
      /\ last_call'.name = "UntrackCommandBuffers"
      /\ last_call'.pool = last_call.pool
      /\ last_call'.device = last_call.device
      /\ last_call'.command_buffers = last_call.command_buffers) =>
       /\ status' = "running"
       /\ <<pool_to_command_buffers', command_buffer_to_device'>> = last_call.found
       /\ \A cb \in last_call'.command_buffers : ~Tracked(cb)']_vars

\* An untrack has just dropped the entry of the pool that the track before it
\* had created, and the other pool still has its command buffer.
TrackThenUntrackRestoresWitness ==
  /\ status = "running"
  /\ last_call.name = "UntrackCommandBuffers"
  /\ last_call.pool \notin DOMAIN pool_to_command_buffers
  /\ DOMAIN pool_to_command_buffers # {}
  /\ DOMAIN command_buffer_to_device # {}

\* The depths of the markers that a sequence of marker entries completes, in
\* the order of their end entries, when the queue's stack holds size markers
\* before the first entry: a marker is ended when the stack holds one marker more
\* than when it was begun.
RECURSIVE CompletedDepths(_, _)
CompletedDepths(size, markers) ==
  IF markers = <<>> THEN <<>>
  ELSE IF Head(markers).type = kDebugMarkerBegin
  THEN CompletedDepths(size + 1, Tail(markers))
  ELSE (IF has_value(Head(markers).slot_index) THEN <<size - 1>> ELSE <<>>)
         \o CompletedDepths(size - 1, Tail(markers))

\* The marker entries of the submitted command buffers, in submission order.
SubmittedMarkers ==
  LET cbs == Concat(value(submit).submits) IN
  Concat([i \in 1 .. Len(cbs) |-> command_buffer_to_state[cbs[i]].markers])

Depths(marker_states) == [k \in 1 .. Len(marker_states) |-> marker_states[k].depth]

\* C27: the k-th marker from the bottom of a queue's marker stack has depth
\* k - 1, the size of the stack before its begin entry was pushed.  The markers a
\* returning DoPostSubmitQueue completes carry the size the stack had before
\* their begin entry, and the event CompleteSubmits emits for a submission
\* carries the depths of the submission's completed markers.
MarkerDepths ==
  [][/\ \A q \in Queues : \A k \in 1 .. Len(queue_to_markers'[q]) :
          queue_to_markers'[q][k].depth = k - 1
     /\ (/\ last_call'.name = "DoPostSubmitQueue"
         /\ status' = "running"
         /\ queue_to_submissions' # queue_to_submissions) =>
          LET q == value(submit).queue IN
          Depths(Last(queue_to_submissions'[q]).completed_markers) =
            CompletedDepths(Len(queue_to_markers[q]), SubmittedMarkers)
     /\ last_call'.name = "CompleteSubmits" =>
          \A at \in InFlight : \A k \in EventsOf(queue_to_submissions[at[1]][at[2]]) :
            Depths(events'[k].completed_markers) =
              Depths(queue_to_submissions[at[1]][at[2]].completed_markers)]_vars

\* An event has just been emitted that carries a nested marker, of depth 1,
\* and the marker around it, of depth 0.
MarkerDepthsWitness ==
  /\ status = "running"
  /\ last_call.name = "CompleteSubmits"
  /\ \E k \in 1 .. Len(events) : Depths(events[k].completed_markers) = <<1, 0>>

\* C28: NextReadyQuerySlot returns false exactly when no slot is ready; then it
\* leaves the slot states and the free-list as they are.  When it returns true
\* it has taken one ready slot: that slot is pending and gone from the
\* free-list, every other slot and the rest of the free-list are as before.
AcquireFailsWhenExhausted ==
  [][last_call'.name = "NextReadyQuerySlot" =>
       /\ status' = "running"
       /\ last_call'.result = FALSE <=> ReadySlots = {}
       /\ ~last_call'.result =>
            /\ query_slots' = query_slots
            /\ free_slots' = free_slots
            /\ last_call'.allocated_index = nullopt
       /\ last_call'.result =>
            \E slot \in ReadySlots :
              /\ last_call'.allocated_index = make_optional(slot)
              /\ query_slots' = [query_slots EXCEPT ![slot] = kQueryPendingOnGpu]
              /\ Len(free_slots') = Len(free_slots) - 1
              /\ Range(free_slots') = Range(free_slots) \ {slot}]_vars

\* An acquire has just failed on a pool of two or more slots, all pending.
AcquireFailsWhenExhaustedWitness ==
  /\ status = "running"
  /\ last_call.name = "NextReadyQuerySlot"
  /\ ~last_call.result
  /\ Cardinality(PendingSlots) >= 2
  /\ ReadySlots = {}

Releases == {"ResetQuerySlots", "RollbackPendingQuerySlots"}

\* C29: NextReadyQuerySlot takes the slot at the back of the free-list, and a
\* release pushes the slots it is given onto the back in the order given: an
\* acquire that directly follows a returning release of a non-empty list
\* returns the last slot of that list.  While the free-list is as
\* InitializeTimerQueryPool made it, less the slots taken - 0, 1, ..., m - 1 -
\* the acquire returns m - 1: a fresh pool of capacity N gives N - 1, N - 2, ..., 0.
AcquireIsLastInFirstOut ==
  [][/\ (last_call'.name = "NextReadyQuerySlot" /\ last_call'.result) =>
          /\ last_call'.allocated_index = make_optional(Last(free_slots))
          /\ free_slots' = Front(free_slots)
          /\ (/\ last_call.name \in Releases
               /\ last_call.slot_indices # <<>>) =>
                last_call'.allocated_index = make_optional(Last(last_call.slot_indices))
          /\ (\A i \in 1 .. Len(free_slots) : free_slots[i] = i - 1) =>
                last_call'.allocated_index =
                  make_optional(Cardinality(DOMAIN query_slots) - Cardinality(PendingSlots) - 1)
     /\ (last_call'.name \in Releases /\ status' = "running") =>
          free_slots' = free_slots \o last_call'.slot_indices
     /\ (last_call.name = "SubmissionTracker" /\ last_call'.name = "NextReadyQuerySlot") =>
          last_call'.allocated_index = make_optional(Cardinality(DOMAIN query_slots) - 1)]_vars

\* An acquire has just returned a slot while a slot of a greater index lies
\* below it in the free-list: the order is that of the releases, not of the
\* indices.
AcquireIsLastInFirstOutWitness ==
  /\ status = "running"
  /\ last_call.name = "NextReadyQuerySlot"
  /\ last_call.result
  /\ free_slots # <<>>
  /\ \E slot \in last_call.allocated_index : \E i \in 1 .. Len(free_slots) : free_slots[i] > slot

\* The slots of the list are pending and none is listed twice.
PendingOnce(slot_indices) ==
  /\ Range(slot_indices) \subseteq PendingSlots
  /\ Cardinality(Range(slot_indices)) = Len(slot_indices)

SinkAbsentTolerated ==
  [][(/\ producer = "absent"
      /\ last_call'.name # "SetProducer") =>
       /\ status' = "running"
       /\ events' = <<>>
       /\ \A k \in 1 .. Len(driver_calls') : driver_calls'[k].call # "CmdWriteTimestamp"
       /\ PendingSlots' \subseteq PendingSlots]_vars

\* The slots a submission in flight references: begin and end slots of its
\* command buffers, end slots and present begin slots of its completed markers.
SlotsReferenced(at) == {ref[5] : ref \in SubmissionRefs(at[1], at[2])}

MetasInFlight ==
  {queue_to_submissions[at[1]][at[2]].meta_information : at \in InFlight}

\* C35: a marker begun with a slot in a submission of a queue and not ended
\* yet stays on the stack of the queue, with its begin slot pending, neither
\* read nor reset, when CompleteSubmits drains that submission.  When the
\* later submission that ended it is drained - the earlier one being out of
\* flight - the begin slot, pending until then, is read once, reset in the
\* driver once and ready.
CrossSubmissionBeginSlot ==
  [][\A at \in InFlight :
       LET submission == queue_to_submissions[at[1]][at[2]] IN
       (ProbedAs(submission, VK_SUCCESS) /\ Removed(at)) =>
         /\ \A k \in 1 .. Len(queue_to_markers[at[1]]) :
              \A begin \in queue_to_markers[at[1]][k].begin_info :
                begin.meta_information = submission.meta_information =>
                  /\ status' = "running"
                  /\ queue_to_markers' = queue_to_markers
                  /\ begin.slot_index \in PendingSlots'
                  /\ \A c \in 1 .. Len(driver_calls') :
                       driver_calls'[c].slot # begin.slot_index
         /\ \A k \in 1 .. Len(submission.completed_markers) :
              \A begin \in submission.completed_markers[k].begin_info :
                (/\ begin.meta_information # submission.meta_information
                 /\ begin.meta_information \notin MetasInFlight) =>
                  /\ status' = "running"
                  /\ begin.slot_index \in PendingSlots
                  /\ Times(driver_calls', ResultCall(begin.slot_index, VK_SUCCESS)) = 1
                  /\ Times(driver_calls', ResetCall(begin.slot_index)) = 1
                  /\ begin.slot_index \in ReadySlots']_vars

\* A submission that began a marker was drained while the marker was open, and
\* CompleteSubmits has now drained the later submission that ended it: the
\* event carries the begin of the earlier submission and the begin slot is
\* ready again.
CrossSubmissionBeginSlotWitness ==
  /\ status = "running"
  /\ last_call.name = "CompleteSubmits"
  /\ InFlight = {}
  /\ Len(events) = 1
  /\ Len(events[1].completed_markers) = 1
  /\ \E begin \in events[1].completed_markers[1].begin_marker :
       begin.meta_info.post_submission_cpu_timestamp
         < events[1].meta_info.pre_submission_cpu_timestamp
  /\ PendingSlots = {}

\* C36: a DoPostSubmitQueue that finds the capture flag off or has no
\* pre-submit timestamp returns with the marker stack and the in-flight list of
\* every queue as they were, and with the record of every command buffer that
\* no submit-info names as it was, its slots still pending.
NonCapturingPostSubmitFrame ==
  [][(/\ last_call'.name = "DoPostSubmitQueue"
      /\ NotCapturingRegime) =>
       /\ status' = "running"
       /\ queue_to_markers' = queue_to_markers
       /\ queue_to_submissions' = queue_to_submissions
       /\ \A cb \in DOMAIN command_buffer_to_state :
            cb \notin Range(Concat(value(submit).submits)) =>
              /\ cb \in DOMAIN command_buffer_to_state'
              /\ command_buffer_to_state'[cb] = command_buffer_to_state[cb]
              /\ RecordSlots({cb}) \subseteq PendingSlots']_vars

\* Such a post-submit has just released the slot of the command buffer it was
\* given, while a marker is open on the queue, a submission is in flight and
\* the other command buffer has a record with a slot.
NonCapturingPostSubmitFrameWitness ==
  /\ status = "running"
  /\ last_call.name = "DoPostSubmitQueue"
  /\ driver_calls # <<>>
  /\ \E q \in Queues : queue_to_markers[q] # <<>> /\ queue_to_submissions[q] # <<>>
  /\ \E cb \in DOMAIN command_buffer_to_state : RecordSlots({cb}) # {}

\* C37: the local marker depth of every record is the running count of its
\* marker entries - one up for a begin, one down for an end unless it is zero -
\* and so never below zero; MarkDebugMarkerEnd on a record of depth zero,
\* with a slot left in the pool, appends its end entry and leaves the depth
\* zero.
LocalDepthIsRunningCount ==
  [][/\ \A cb \in DOMAIN command_buffer_to_state' :
          /\ command_buffer_to_state'[cb].local_marker_stack_size
               = NestingAfter(command_buffer_to_state'[cb].markers)
          /\ command_buffer_to_state'[cb].local_marker_stack_size >= 0
     /\ \A cb \in DOMAIN command_buffer_to_state :
          (/\ last_call' = [name |-> "MarkDebugMarkerEnd", command_buffer |-> cb]
           /\ command_buffer_to_state[cb].local_marker_stack_size = 0
           /\ ReadySlots # {}) =>
             /\ status' = "running"
             /\ command_buffer_to_state'[cb].local_marker_stack_size = 0
             /\ Front(command_buffer_to_state'[cb].markers)
                  = command_buffer_to_state[cb].markers
             /\ Last(command_buffer_to_state'[cb].markers).type = kDebugMarkerEnd]_vars

\* MarkDebugMarkerEnd has just appended a second end entry to a record that
\* has no begin entry: the depth is zero.
LocalDepthIsRunningCountWitness ==
  /\ status = "running"
  /\ last_call.name = "MarkDebugMarkerEnd"
  /\ LET state == command_buffer_to_state[last_call.command_buffer] IN
     /\ Len(state.markers) = 2
     /\ \A k \in 1 .. 2 : state.markers[k].type = kDebugMarkerEnd
     /\ state.local_marker_stack_size = 0

\* Every end entry of the list meets an open marker when the entries are
\* processed in order against a stack of the given size.
RECURSIVE EndsMeetOpenMarker(_, _)
EndsMeetOpenMarker(size, markers) ==
  IF markers = <<>> THEN TRUE
  ELSE IF Head(markers).type = kDebugMarkerBegin
  THEN EndsMeetOpenMarker(size + 1, Tail(markers))
  ELSE size > 0 /\ EndsMeetOpenMarker(size - 1, Tail(markers))

\* C38: a DoPostSubmitQueue that finds the capture flag on and has a pre-submit
\* timestamp processes every end entry of the command buffer it is given
\* against a marker stack of the queue that is not empty, and so stays within
\* defined behaviour.
EndEntryMeetsOpenMarker ==
  [][(/\ last_call'.name = "DoPostSubmitQueue"
      /\ ~NotCapturingRegime) =>
       LET q == value(submit).queue
           cb == value(submit).submits[1][1]
       IN /\ cb \in DOMAIN command_buffer_to_state =>
               EndsMeetOpenMarker(Len(queue_to_markers[q]),
                                  command_buffer_to_state[cb].markers)
          /\ status' # "undefined"]_vars

\* The slots some thread holds.
Rented == UNION {pool_calls[t].rented : t \in Threads}

\* C33: whatever the interleaving of the threads' calls of NextReadyQuerySlot,
\* ResetQuerySlots and RollbackPendingQuerySlots, no CHECK fails, a slot that
\* NextReadyQuerySlot hands out is held by no thread at that moment, and
\* whenever the lock of the pool is free the free-list holds each ready slot
\* once, the other slots are pending and are those the threads hold or are
\* about to hand to the pool: ready + pending = N.
PoolUnderThreads ==
  [][/\ status' = "running"
     /\ \A t \in Threads :
          (pool_calls[t].pc = "mark" /\ pool_calls'[t].pc = "returned") =>
            /\ pool_calls[t].allocated_index \cap Rented = {}
            /\ pool_calls[t].allocated_index \subseteq ReadySlots
            /\ pool_calls[t].allocated_index \subseteq pool_calls'[t].rented
     /\ \A t \in Threads : \A u \in Threads \ {t} :
          pool_calls'[t].rented \cap pool_calls'[u].rented = {}
     /\ mutex_' = nullopt =>
          /\ Len(free_slots') + Cardinality(PendingSlots') = Cardinality(DOMAIN query_slots')
          /\ Range(free_slots') = ReadySlots'
          /\ Cardinality(ReadySlots') = Len(free_slots')
          /\ PendingSlots' = Rented']_vars

\* One thread holds a slot and waits for the lock while the other, inside
\* ResetQuerySlotsInternal, has made a slot ready and not yet pushed it: under
\* the lock the free-list and the pending slots do not add up to N.
PoolUnderThreadsWitness ==
  /\ status = "running"
  /\ mutex_ = make_optional("thread2")
  /\ pool_calls["thread2"].pc = "push_back"
  /\ pool_calls["thread1"].rented # {}
  /\ Len(free_slots) + Cardinality(PendingSlots) < Cardinality(DOMAIN query_slots)

\* Where a submission is: in flight at a place of a queue's list, or at a
\* place of the list a thread pulled.
Places ==
  {<<"queue", q, i>> : q \in Queues, i \in 1 .. MaxSubmissions}
    \cup {<<"thread", t, i>> : t \in Threads, i \in 1 .. MaxSubmissions}

Occupied ==
  {place \in Places :
     IF place[1] = "queue" THEN place[3] <= Len(queue_to_submissions[place[2]])
     ELSE place[3] <= Len(completed_submissions[place[2]])}

MetaAt(place) ==
  IF place[1] = "queue" THEN queue_to_submissions[place[2]][place[3]].meta_information
  ELSE completed_submissions[place[2]][place[3]].submission.meta_information

\* C40: with CompleteSubmits running on several threads and DoPostSubmitQueue
\* between their steps, a submission is in flight or held by one thread, never
\* both and never by two; what a thread pulls are the submissions whose probe
\* succeeded, and it takes them out of flight; a thread emits one event for
\* each submission it holds and resets each of their slots once, the slots
\* being pending until then, and no CHECK fails.
PulledByOneCaller ==
  [][/\ \A place \in Occupied' : \A other \in Occupied' \ {place} :
          MetaAt(place)' # MetaAt(other)'
     /\ \A t \in Threads :
          /\ last_call' = [name |-> "PullCompletedSubmissions", command_buffer |-> "",
                           thread |-> t] =>
               /\ status' = "running"
               /\ \A at \in InFlight :
                    LET submission == queue_to_submissions[at[1]][at[2]] IN
                    (\E k \in 1 .. Len(driver_calls') :
                       driver_calls'[k] = ResultCall(ProbeSlot(submission), VK_SUCCESS)) <=>
                      (\E i \in 1 .. Len(completed_submissions'[t]) :
                         completed_submissions'[t][i].submission = submission)
               /\ \A i \in 1 .. Len(completed_submissions'[t]) :
                    \E at \in InFlight :
                      /\ queue_to_submissions[at[1]][at[2]]
                           = completed_submissions'[t][i].submission
                      /\ Removed(at)
          /\ last_call' = [name |-> "EnqueueCaptureEvent", command_buffer |-> "",
                           thread |-> t] =>
               /\ status' = "running"
               /\ Len(events') = Len(completed_submissions[t])
               /\ \A i \in 1 .. Len(events') :
                    events'[i].meta_info.pre_submission_cpu_timestamp =
                      completed_submissions[t][i].submission.meta_information
                        .pre_submission_cpu_timestamp
               /\ completed_submissions'[t] = <<>>
               /\ \A slot \in Range(QuerySlotsToReset(completed_submissions[t])) :
                    /\ slot \in PendingSlots
                    /\ slot \in ReadySlots'
                    /\ Times(driver_calls', ResetCall(slot)) = 1]_vars

\* One thread has pulled a submission and not yet emitted it, and the other
\* has just pulled the submission that was entered after it.
PulledByOneCallerWitness ==
  /\ status = "running"
  /\ last_call.name = "PullCompletedSubmissions"
  /\ \A t \in Threads : Len(completed_submissions[t]) = 1
  /\ completed_submissions["thread1"][1].submission.meta_information
       .pre_submission_cpu_timestamp
       < completed_submissions["thread2"][1].submission.meta_information
           .pre_submission_cpu_timestamp

\* C39: no slot goes from pending to ready while a timestamp-write into it,
\* recorded in a command buffer the driver has accepted, has not executed on
\* the GPU: the value a drain reads from a slot is the one written during the
\* rental the drain ends.
NoReleaseBeforeExecution ==
  [][\A slot \in PendingSlots \cap ReadySlots' : slot \notin UnexecutedWrites]_vars

====
